---- MODULE Spec2Model ----
(***************************************************************************)
(* Procedural humanoid mesh builder of Shelfie                             *)
(* (src/src/pipeline/meshBuilder.js, first module of the file, lines       *)
(* 1-548): proportion estimation from betas and 2D keypoints, assembly of  *)
(* the primitive hierarchy, mock pose application, and buildMesh.          *)
(*                                                                         *)
(* Numbers are fixed point:                                                *)
(*   lengths (world units, metres)        1 = 0.00001                      *)
(*   keypoint coordinates (normalised)    1 = 0.001                        *)
(*   normalised distances, scale factor   1 = 0.0001                       *)
(*   betas, thetas, confidences, degrees  1 = 0.01                         *)
(*   rotations (radians)                  1 = 0.000001                     *)
(* Products are divided with \div (floor); every intermediate stays below  *)
(* 2^31.                                                                   *)
(***************************************************************************)
EXTENDS Integers, Sequences, FiniteSets, TLC

(***************************************************************************)
(* JavaScript values that are not finite numbers.                          *)
(***************************************************************************)
\* undefined / null: a missing field, a missing array element, a null measure
Null == -2000000001
\* NaN: the result of arithmetic on undefined or on a non-numeric string
NaN == -2000000002
\* a non-numeric string element such as "a" (truthy, NaN in arithmetic)
Str == -2000000003

IsNum(v) == v \notin {Null, NaN, Str}

\* JS truthiness of a number-like value: 0, NaN, null and undefined are falsy
Truthy(v) == v \notin {Null, NaN, 0}

\* JS a || b
Or(a, b) == IF Truthy(a) THEN a ELSE b

\* v * (num/den)
Mul(v, num, den) == IF IsNum(v) THEN (v * num) \div den ELSE NaN

Add(a, b) == IF IsNum(a) /\ IsNum(b) THEN a + b ELSE NaN

Sub(a, b) == IF IsNum(a) /\ IsNum(b) THEN a - b ELSE NaN

Neg(a) == IF IsNum(a) THEN 0 - a ELSE NaN

\* Math.abs
Abs(a) == IF IsNum(a) THEN (IF a < 0 THEN 0 - a ELSE a) ELSE NaN

\* JS relational operators: any comparison with NaN or undefined is false
Gt(a, b) == IsNum(a) /\ IsNum(b) /\ a > b

Lte(a, b) == IsNum(a) /\ IsNum(b) /\ a <= b

Gte(a, b) == IsNum(a) /\ IsNum(b) /\ a >= b

\* Math.min(Math.max(value, min), max)
clamp(value, min, max) ==
    IF IsNum(value) /\ IsNum(min) /\ IsNum(max)
    THEN LET m == IF value > min THEN value ELSE min
         IN  IF m < max THEN m ELSE max
    ELSE NaN

RECURSIVE SqrtSearch(_, _, _)
SqrtSearch(n, lo, hi) ==
    IF lo >= hi THEN lo
    ELSE LET mid == (lo + hi + 1) \div 2
         IN  IF mid * mid <= n THEN SqrtSearch(n, mid, hi)
             ELSE SqrtSearch(n, lo, mid - 1)

\* Math.sqrt on a non-negative integer, rounded down
Sqrt(n) == SqrtSearch(n, 0, 46340)

(***************************************************************************)
(* Proportion estimator                                                    *)
(***************************************************************************)
Fields ==
    {"height", "shoulderWidth", "hipWidth", "limbRadius", "headRadius",
     "torsoLength", "torsoRadius", "upperArmLength", "forearmLength",
     "thighLength", "shinLength"}

\* a JS array / string / plain object / missing field, with its indexed elements
Absent == [kind |-> "absent", elems |-> <<>>]

Array(elems) == [kind |-> "array", elems |-> elems]

\* container[idx] (idx from 0): undefined beyond the end and on a plain object
ElemAt(c, idx) ==
    IF c.kind \in {"array", "string"} /\ idx < Len(c.elems)
    THEN c.elems[idx + 1]
    ELSE Null

\* faulty variant: every shape term reads the following beta
betaTerm_nextIndex(betas, idx, num, den) == Mul(Or(ElemAt(betas, idx + 1), 0), num, den)

\* (betas[idx] || 0) * factor, factor = num/den
betaTerm(betas, idx, num, den) == Mul(Or(ElemAt(betas, idx), 0), num, den)

\* smplParams?.betas || []
betasOrEmpty(smplParams) ==
    IF smplParams.betas.kind = "absent" THEN Array(<<>>) ELSE smplParams.betas

\* faulty variant: torsoRadius is taken from the height
baseRecord_torsoFromHeight(betas, threw) ==
    LET height == clamp(Add(170000, betaTerm(betas, 0, 120, 1)), 145000, 195000)
        shoulderWidth == clamp(Add(38000, betaTerm(betas, 1, 50, 1)), 28000, 48000)
        hipWidth == clamp(Add(28000, betaTerm(betas, 2, 50, 1)), 20000, 42000)
        limbRadius == clamp(Add(4000, betaTerm(betas, 3, 15, 1)), 3000, 7000)
    IN  [threw |-> threw,
         height |-> height,
         shoulderWidth |-> shoulderWidth,
         hipWidth |-> hipWidth,
         limbRadius |-> limbRadius,
         headRadius |-> Mul(height, 75, 1000),
         torsoLength |-> Mul(height, 35, 100),
         torsoRadius |-> Mul(height, 35, 100),
         upperArmLength |-> Mul(height, 18, 100),
         forearmLength |-> Mul(height, 18, 100),
         thighLength |-> Mul(height, 25, 100),
         shinLength |-> Mul(height, 25, 100)]

\* the body of deriveBaseProportions on the betas it reads; threw: reading them raised
baseRecord(betas, threw) ==
    LET height == clamp(Add(170000, betaTerm(betas, 0, 120, 1)), 145000, 195000)
        shoulderWidth == clamp(Add(38000, betaTerm(betas, 1, 50, 1)), 28000, 48000)
        hipWidth == clamp(Add(28000, betaTerm(betas, 2, 50, 1)), 20000, 42000)
        limbRadius == clamp(Add(4000, betaTerm(betas, 3, 15, 1)), 3000, 7000)
    IN  [threw |-> threw,
         height |-> height,
         shoulderWidth |-> shoulderWidth,
         hipWidth |-> hipWidth,
         limbRadius |-> limbRadius,
         headRadius |-> Mul(height, 75, 1000),
         torsoLength |-> Mul(height, 35, 100),
         torsoRadius |-> Mul(shoulderWidth, 35, 100),
         upperArmLength |-> Mul(height, 18, 100),
         forearmLength |-> Mul(height, 18, 100),
         thighLength |-> Mul(height, 25, 100),
         shinLength |-> Mul(height, 25, 100)]

\* faulty variant: const { betas } = smplParams; betas[0] throws when betas is missing
deriveBaseProportions_noDefault(smplParams) ==
    baseRecord(smplParams.betas, smplParams.betas.kind = "absent")

deriveBaseProportions(smplParams) == baseRecord(betasOrEmpty(smplParams), FALSE)

\* indices of the entries buildKeypointMap keeps
keptIndices(keypoints, minConfidence) ==
    {i \in 1..Len(keypoints) :
        keypoints[i].name # "" /\ Gte(keypoints[i].confidence, minConfidence)}

\* the accumulator after the kept entries were assigned in order: later
\* entries overwrite earlier ones of the same name
mapOfKept(keypoints, kept) ==
    LET names == {keypoints[i].name : i \in kept}
        last(n) == CHOOSE i \in kept :
                      /\ keypoints[i].name = n
                      /\ \A j \in kept : keypoints[j].name = n => j <= i
    IN  [n \in names |-> keypoints[last(n)]]

\* faulty variant: kp.confidence > minConfidence
buildKeypointMap_aboveThreshold(keypoints, minConfidence) ==
    mapOfKept(keypoints,
              {i \in 1..Len(keypoints) :
                  keypoints[i].name # "" /\ Gt(keypoints[i].confidence, minConfidence)})

buildKeypointMap(keypoints, minConfidence) ==
    mapOfKept(keypoints, keptIndices(keypoints, minConfidence))

\* kp.name: <<point>> when present, <<>> when undefined
At(kp, name) == IF name \in DOMAIN kp THEN <<kp[name]>> ELSE <<>>

\* a || b || c on optional points
FirstOf(a, b, c) == IF a # <<>> THEN a ELSE IF b # <<>> THEN b ELSE c

distance2D(a, b) ==
    LET dx == Sub(a.x, b.x)
        dy == Sub(a.y, b.y)
    IN  IF IsNum(dx) /\ IsNum(dy) THEN Sqrt((dx * dx + dy * dy) * 100) ELSE NaN

RECURSIVE SumField(_, _)
SumField(points, f) ==
    IF points = <<>> THEN 0
    ELSE Add(points[1][f], SumField(Tail(points), f))

\* faulty variant: the first point is returned instead of the mean
meanPoint_first(valid) ==
    <<[x |-> valid[1].x, y |-> valid[1].y, confidence |-> valid[1].confidence]>>

\* the mean of a non-empty sequence of points
meanPoint(valid) ==
    <<[x |-> Mul(SumField(valid, "x"), 1, Len(valid)),
       y |-> Mul(SumField(valid, "y"), 1, Len(valid)),
       confidence |-> Mul(SumField(valid, "confidence"), 1, Len(valid))]>>

\* faulty variant: no midpoint unless every side is present
midpoint_allSides(points) ==
    IF \E i \in 1..Len(points) : points[i] = <<>> THEN <<>>
    ELSE meanPoint([i \in 1..Len(points) |-> points[i][1]])

\* points is a sequence of optional points; the mean of those present
midpoint(points) ==
    LET valid == SelectSeq(points, LAMBDA q : q # <<>>)
    IN  IF Len(valid) = 0 THEN <<>>
        ELSE meanPoint([i \in 1..Len(valid) |-> valid[i][1]])

headPt(kp) == FirstOf(At(kp, "nose"), At(kp, "left_eye"), At(kp, "right_eye"))

ankleMid(kp) == midpoint(<<At(kp, "left_ankle"), At(kp, "right_ankle")>>)

hipMid(kp) == midpoint(<<At(kp, "left_hip"), At(kp, "right_hip")>>)

shoulderMid(kp) == midpoint(<<At(kp, "left_shoulder"), At(kp, "right_shoulder")>>)

\* a && b ? distance2D(a, b) : null
distOrNull(a, b) == IF a # <<>> /\ b # <<>> THEN distance2D(a[1], b[1]) ELSE Null

bodyHeightNorm(kp) == distOrNull(headPt(kp), ankleMid(kp))

backupHeightNorm(kp) == distOrNull(shoulderMid(kp), ankleMid(kp))

heightNorm(kp) == Or(bodyHeightNorm(kp), backupHeightNorm(kp))

\* faulty variant: the baseline height is not divided by the normalised height
scaleOf_unnormalised(hNorm, base) ==
    IF Truthy(hNorm)
    THEN clamp(Mul(base.height, 1, 10), 5000, 30000)
    ELSE 10000

\* heightNorm ? clamp(base.height / heightNorm, 0.5, 3.0) : 1.0
scaleOf(hNorm, base) ==
    IF Truthy(hNorm)
    THEN clamp(Mul(base.height, 1000, hNorm), 5000, 30000)
    ELSE 10000

\* heightNorm ? heightNorm * scale : base.height
heightWorld(hNorm, base) ==
    IF Truthy(hNorm)
    THEN (IF IsNum(scaleOf(hNorm, base)) THEN Mul(hNorm, scaleOf(hNorm, base), 1000) ELSE NaN)
    ELSE base.height

\* faulty variant: the distance is returned without the scale factor
measure_unscaled(a, b, scale) ==
    IF a # <<>> /\ b # <<>>
    THEN Mul(distance2D(a[1], b[1]), 10, 1)
    ELSE Null

\* a && b ? distance2D(a, b) * scale : null
measure(a, b, scale) ==
    IF a # <<>> /\ b # <<>>
    THEN (IF IsNum(scale) THEN Mul(distance2D(a[1], b[1]), scale, 1000) ELSE NaN)
    ELSE Null

\* faulty variant: the value is passed through without the band
clampAround_unclamped(val, baseVal, span) == val

\* span in tenths
clampAround(val, baseVal, span) ==
    IF val = Null THEN Null
    ELSE clamp(val, Mul(baseVal, 10 - span, 10), Mul(baseVal, 10 + span, 10))

\* faulty variant: the sides are summed, not averaged
averageResolved_sum(l, r) ==
    LET sides == SelectSeq(<<l, r>>, Truthy)
        sum == IF Len(sides) = 0 THEN 0
               ELSE IF Len(sides) = 1 THEN sides[1]
               ELSE Add(sides[1], sides[2])
    IN  Or(sum, Null)

\* [l, r].filter(Boolean).reduce((s, v, i, arr) => s + v / arr.length, 0) || null
averageResolved(l, r) ==
    LET sides == SelectSeq(<<l, r>>, Truthy)
        sum == IF Len(sides) = 0 THEN 0
               ELSE IF Len(sides) = 1 THEN sides[1]
               ELSE Add(Mul(sides[1], 1, 2), Mul(sides[2], 1, 2))
    IN  Or(sum, Null)

\* measures = {} : every field undefined
noMeasures == [f \in Fields |-> Null]

\* if (!signal) missingSignals.push(name), in source order
missingSignals(shoulderWidth, hipWidth, upperArm, forearm, thigh, shin, headWidth, hNorm) ==
    LET add(seq, missing, name) == IF missing THEN Append(seq, name) ELSE seq
        s1 == add(<<>>, ~Truthy(shoulderWidth), "shoulder width")
        s2 == add(s1, ~Truthy(hipWidth), "hip width")
        s3 == add(s2, ~Truthy(upperArm[1]) /\ ~Truthy(upperArm[2]), "upper arm length")
        s4 == add(s3, ~Truthy(forearm[1]) /\ ~Truthy(forearm[2]), "forearm length")
        s5 == add(s4, ~Truthy(thigh[1]) /\ ~Truthy(thigh[2]), "thigh length")
        s6 == add(s5, ~Truthy(shin[1]) /\ ~Truthy(shin[2]), "shin length")
        s7 == add(s6, ~Truthy(headWidth), "head size")
    IN  add(s7, ~Truthy(hNorm), "overall height")

\* deriveProportionsFromKeypoints after its buildKeypointMap call
measuresFromMap(kp, base) ==
    LET hNorm == heightNorm(kp)
        scale == scaleOf(hNorm, base)
        shoulderWidth == measure(At(kp, "left_shoulder"), At(kp, "right_shoulder"), scale)
        hipWidth == measure(At(kp, "left_hip"), At(kp, "right_hip"), scale)
        upperArmLeft == measure(At(kp, "left_shoulder"), At(kp, "left_elbow"), scale)
        upperArmRight == measure(At(kp, "right_shoulder"), At(kp, "right_elbow"), scale)
        forearmLeft == measure(At(kp, "left_elbow"), At(kp, "left_wrist"), scale)
        forearmRight == measure(At(kp, "right_elbow"), At(kp, "right_wrist"), scale)
        thighLeft == measure(At(kp, "left_hip"), At(kp, "left_knee"), scale)
        thighRight == measure(At(kp, "right_hip"), At(kp, "right_knee"), scale)
        shinLeft == measure(At(kp, "left_knee"), At(kp, "left_ankle"), scale)
        shinRight == measure(At(kp, "right_knee"), At(kp, "right_ankle"), scale)
        eyeDistance == measure(At(kp, "left_eye"), At(kp, "right_eye"), scale)
        noseEarDistance == measure(At(kp, "nose"), At(kp, "right_ear"), scale)
        headWidthEstimate ==
            Or(eyeDistance,
               IF Truthy(noseEarDistance) THEN Mul(noseEarDistance, 2, 1) ELSE Null)
        neck == FirstOf(At(kp, "neck"), At(kp, "nose"), <<>>)
        torsoLength == IF neck # <<>> /\ hipMid(kp) # <<>>
                       THEN measure(neck, hipMid(kp), scale) ELSE Null
        limbRadius == IF Truthy(shoulderWidth)
                      THEN clamp(Mul(shoulderWidth, 1, 10), 3000, 8000) ELSE Null
    IN  IF DOMAIN kp = {}
        THEN [measures |-> noMeasures, warnings |-> <<"no confident keypoints">>]
        ELSE
        [measures |->
           [height |-> clampAround(heightWorld(hNorm, base), base.height, 6),
            shoulderWidth |-> clampAround(shoulderWidth, base.shoulderWidth, 6),
            hipWidth |-> clampAround(hipWidth, base.hipWidth, 8),
            headRadius |->
                clampAround(IF Truthy(headWidthEstimate)
                            THEN Mul(headWidthEstimate, 35, 100) ELSE Null,
                            base.headRadius, 4),
            torsoLength |-> clampAround(Or(torsoLength, Null), base.torsoLength, 4),
            torsoRadius |->
                clampAround(Mul(Or(shoulderWidth, base.shoulderWidth), 35, 100),
                            base.torsoRadius, 3),
            upperArmLength |->
                clampAround(averageResolved(upperArmLeft, upperArmRight),
                            base.upperArmLength, 6),
            forearmLength |->
                clampAround(averageResolved(forearmLeft, forearmRight),
                            base.forearmLength, 6),
            thighLength |->
                clampAround(averageResolved(thighLeft, thighRight),
                            base.thighLength, 6),
            shinLength |->
                clampAround(averageResolved(shinLeft, shinRight),
                            base.shinLength, 6),
            limbRadius |-> Or(limbRadius, base.limbRadius)],
         warnings |->
            missingSignals(shoulderWidth, hipWidth,
                           <<upperArmLeft, upperArmRight>>,
                           <<forearmLeft, forearmRight>>,
                           <<thighLeft, thighRight>>,
                           <<shinLeft, shinRight>>,
                           headWidthEstimate, hNorm)]

\* keypoints is the array's element sequence
deriveProportionsFromKeypoints(keypoints, base) ==
    measuresFromMap(buildKeypointMap(keypoints, 30), base)

\* !keypoints || keypoints.length === 0
noKeypoints(keypoints) ==
    \/ keypoints.kind = "absent"
    \/ keypoints.kind \in {"array", "string"} /\ Len(keypoints.elems) = 0

\* keypoints.reduce exists on arrays only: anything else is a TypeError
hasReduce(keypoints) == keypoints.kind = "array"

\* faulty variant: the measures are returned without the fallback to base
mergeProportions_measuresOnly(measures, base) == [f \in Fields |-> measures[f]]

\* the merge of deriveProportions: measures.f || base.f
mergeProportions(measures, base) == [f \in Fields |-> Or(measures[f], base[f])]

\* logger.warn of deriveProportions after the keypoint path: the message text
\* followed by the warnings it joins
mixedLog(warns) ==
    IF Len(warns) > 0 THEN <<"Using mixed keypoint/base proportions">> \o warns ELSE <<>>

fallbackLog == <<"No keypoints provided to mesh builder - falling back to betas">>

\* the record deriveProportions returns, its warning list and what it logs;
\* threw: an exception leaves the function
deriveProportions(smplParams) ==
    LET base == deriveBaseProportions(smplParams)
        keypoints == smplParams.keypoints
        fromKp == deriveProportionsFromKeypoints(keypoints.elems, base)
    IN  IF base.threw
        THEN [threw |-> TRUE, proportions |-> noMeasures, warnings |-> <<>>, log |-> <<>>]
        ELSE IF noKeypoints(keypoints)
        THEN [threw |-> FALSE,
              proportions |-> [f \in Fields |-> base[f]],
              warnings |-> <<>>,
              log |-> fallbackLog]
        ELSE IF ~hasReduce(keypoints)
        THEN [threw |-> TRUE, proportions |-> noMeasures, warnings |-> <<>>, log |-> <<>>]
        ELSE [threw |-> FALSE,
              proportions |-> mergeProportions(fromKp.measures, base),
              warnings |-> fromKp.warnings,
              log |-> mixedLog(fromKp.warnings)]

(***************************************************************************)
(* Humanoid assembler: the scene graph as a map from node names (the       *)
(* source's local variable names) to nodes.                                *)
(***************************************************************************)
MeshNode(geometry, dims, x, y, z) ==
    [type |-> "Mesh", geometry |-> geometry, dims |-> dims,
     x |-> x, y |-> y, z |-> z, rx |-> 0, ry |-> 0, rz |-> 0, children |-> <<>>]

\* faulty variant: the children are never added to the group
GroupNode_childless(x, y, z, children) ==
    [type |-> "Group", geometry |-> "", dims |-> <<>>,
     x |-> x, y |-> y, z |-> z, rx |-> 0, ry |-> 0, rz |-> 0, children |-> <<>>]

GroupNode(x, y, z, children) ==
    [type |-> "Group", geometry |-> "", dims |-> <<>>,
     x |-> x, y |-> y, z |-> z, rx |-> 0, ry |-> 0, rz |-> 0, children |-> children]

\* new THREE.Mesh(new THREE.CylinderGeometry(radius, radius, length, 10), material)
limbSegment(length, radius, y) ==
    MeshNode("CylinderGeometry", <<radius, radius, length>>, 0, y, 0)

\* faulty variant: the arm pivot sits at half the shoulder width
armX_halfWidth(p) == Mul(p.shoulderWidth, 5, 10)

\* proportions.shoulderWidth * 0.5 + proportions.limbRadius * 0.3
armX(p) == Add(Mul(p.shoulderWidth, 5, 10), Mul(p.limbRadius, 3, 10))

\* createProceduralHumanoid up to (not including) the applyMockPose call
assembleHumanoid(p) ==
    LET torsoY == Add(Mul(p.torsoLength, 5, 10), Mul(p.hipWidth, 1, 10))
        headY == Add(Add(torsoY, Mul(p.torsoLength, 6, 10)), Mul(p.headRadius, 16, 10))
        shoulderY == Add(torsoY, Mul(p.torsoLength, 45, 100))
        hipY == Mul(p.hipWidth, 1, 10)
        hipX == Mul(p.hipWidth, 5, 10)
        upperArm == limbSegment(p.upperArmLength, p.limbRadius,
                                Mul(Neg(p.upperArmLength), 5, 10))
        forearm == limbSegment(p.forearmLength, Mul(p.limbRadius, 9, 10),
                               Mul(Neg(p.forearmLength), 5, 10))
        hand == MeshNode("SphereGeometry", <<Mul(p.limbRadius, 11, 10)>>,
                         0, Neg(p.forearmLength), 0)
        thigh == limbSegment(p.thighLength, Mul(p.limbRadius, 12, 10),
                             Mul(Neg(p.thighLength), 5, 10))
        shin == limbSegment(p.shinLength, p.limbRadius, Mul(Neg(p.shinLength), 5, 10))
        foot == MeshNode("BoxGeometry",
                         <<Mul(p.limbRadius, 3, 1), Mul(p.limbRadius, 12, 10),
                           Mul(p.limbRadius, 2, 1)>>,
                         0, Neg(p.shinLength), p.limbRadius)
    IN  [humanoid |-> GroupNode(0, 0, 0,
                        <<"torso", "head", "rightArmGroup", "leftArmGroup",
                          "rightLegGroup", "leftLegGroup">>),
         torso |-> MeshNode("CapsuleGeometry", <<p.torsoRadius, p.torsoLength>>,
                            0, torsoY, 0),
         head |-> MeshNode("SphereGeometry", <<p.headRadius>>, 0, headY, 0),
         rightArmGroup |-> GroupNode(Neg(armX(p)), shoulderY, 0,
                                     <<"rightUpperArm", "rightForearmGroup">>),
         rightUpperArm |-> upperArm,
         rightForearmGroup |-> GroupNode(0, Neg(p.upperArmLength), 0,
                                         <<"rightForearm", "rightHand">>),
         rightForearm |-> forearm,
         rightHand |-> hand,
         leftArmGroup |-> GroupNode(armX(p), shoulderY, 0,
                                    <<"leftUpperArm", "leftForearmGroup">>),
         leftUpperArm |-> upperArm,
         leftForearmGroup |-> GroupNode(0, Neg(p.upperArmLength), 0,
                                        <<"leftForearm", "leftHand">>),
         leftForearm |-> forearm,
         leftHand |-> hand,
         rightLegGroup |-> GroupNode(Neg(hipX), hipY, 0,
                                     <<"rightThigh", "rightShinGroup">>),
         rightThigh |-> thigh,
         rightShinGroup |-> GroupNode(0, Neg(p.thighLength), 0,
                                      <<"rightShin", "rightFoot">>),
         rightShin |-> shin,
         rightFoot |-> foot,
         leftLegGroup |-> GroupNode(hipX, hipY, 0,
                                    <<"leftThigh", "leftShinGroup">>),
         leftThigh |-> thigh,
         leftShinGroup |-> GroupNode(0, Neg(p.thighLength), 0,
                                     <<"leftShin", "leftFoot">>),
         leftShin |-> shin,
         leftFoot |-> foot]

\* the hierarchy before createProceduralHumanoid has run
noNodes == [humanoid |-> GroupNode(0, 0, 0, <<>>)]

(***************************************************************************)
(* Pose applicator                                                         *)
(***************************************************************************)
\* clamp(deg, min, max) * (Math.PI / 180): hundredths of a degree to microradians
clampDeg(deg, min, max) == Mul(clamp(deg, min, max), 174533, 1000)

\* faulty variant: thetas[idx] without the default, undefined beyond the end
thetaAt_unguarded(thetas, idx) ==
    IF thetas.kind \in {"array", "string"} /\ Len(thetas.elems) > idx
    THEN thetas.elems[idx + 1]
    ELSE Null

\* thetas && thetas.length > idx ? thetas[idx] : 0
thetaAt(thetas, idx) ==
    IF thetas.kind \in {"array", "string"} /\ Len(thetas.elems) > idx
    THEN thetas.elems[idx + 1]
    ELSE 0

\* smplParams?.thetas || []
thetasOrEmpty(smplParams) ==
    IF smplParams.thetas.kind = "absent" THEN Array(<<>>) ELSE smplParams.thetas

\* array.find, given the matching elements in order: <<first match>> or <<>>
Find(hits) == IF hits = <<>> THEN <<>> ELSE <<hits[1]>>

\* g.children?.some(c => c.geometry?.type === 'CylinderGeometry')
isArmGroup(nodes, g) ==
    \E i \in 1..Len(nodes[g].children) :
        nodes[nodes[g].children[i]].geometry = "CylinderGeometry"

armGroups(nodes) ==
    SelectSeq(nodes["humanoid"].children,
              LAMBDA g : /\ nodes[g].type = "Group"
                         /\ isArmGroup(nodes, g)
                         /\ Gt(Abs(nodes[g].y), 10000)
                         /\ Gt(Abs(nodes[g].x), 5000))

legGroups(nodes, proportions) ==
    SelectSeq(nodes["humanoid"].children,
              LAMBDA g : /\ nodes[g].type = "Group"
                         /\ isArmGroup(nodes, g)
                         /\ Lte(Abs(nodes[g].y), proportions.hipWidth))

\* the body of armGroups.forEach for one group
poseArm(nodes, thetas, armGroup) ==
    LET isLeft == Gt(nodes[armGroup].x, 0)
        shoulderPitch ==
            clampDeg(Mul(thetaAt(thetas, IF isLeft THEN 9 ELSE 6), 40, 1), -4000, 4000)
        shoulderRoll ==
            clampDeg(Mul(thetaAt(thetas, IF isLeft THEN 8 ELSE 5), 25, 1), -2500, 2500)
        forearmGroup == Find(SelectSeq(nodes[armGroup].children, LAMBDA c : nodes[c].type = "Group"))
        elbowBend ==
            clampDeg(Mul(thetaAt(thetas, IF isLeft THEN 12 ELSE 11), 60, 1), -500, 9000)
        n1 == [nodes EXCEPT ![armGroup].rz = shoulderRoll, ![armGroup].rx = shoulderPitch]
    IN  IF forearmGroup # <<>>
        THEN [n1 EXCEPT ![forearmGroup[1]].rx = elbowBend]
        ELSE n1

\* faulty variant: the hip pitch is written to position.x
poseLeg_position(nodes, thetas, legGroup) ==
    LET isLeft == Gt(nodes[legGroup].x, 0)
        hipPitch ==
            clampDeg(Mul(thetaAt(thetas, IF isLeft THEN 16 ELSE 15), 35, 1), -3000, 3500)
    IN  [nodes EXCEPT ![legGroup].x = hipPitch]

\* the body of legGroups.forEach for one group
poseLeg(nodes, thetas, legGroup) ==
    LET isLeft == Gt(nodes[legGroup].x, 0)
        hipPitch ==
            clampDeg(Mul(thetaAt(thetas, IF isLeft THEN 16 ELSE 15), 35, 1), -3000, 3500)
        shinGroup == Find(SelectSeq(nodes[legGroup].children, LAMBDA c : nodes[c].type = "Group"))
        kneeBend ==
            clampDeg(Mul(thetaAt(thetas, IF isLeft THEN 19 ELSE 18), 60, 1), -1000, 9000)
        n1 == [nodes EXCEPT ![legGroup].rx = hipPitch]
    IN  IF shinGroup # <<>>
        THEN [n1 EXCEPT ![shinGroup[1]].rx = kneeBend]
        ELSE n1

\* armGroups.forEach
RECURSIVE poseArms(_, _, _)
poseArms(nodes, thetas, groups) ==
    IF groups = <<>> THEN nodes
    ELSE poseArms(poseArm(nodes, thetas, groups[1]), thetas, Tail(groups))

\* legGroups.forEach
RECURSIVE poseLegs(_, _, _)
poseLegs(nodes, thetas, groups) ==
    IF groups = <<>> THEN nodes
    ELSE poseLegs(poseLeg(nodes, thetas, groups[1]), thetas, Tail(groups))

applyMockPose(nodes, thetas, proportions) ==
    LET head == Find(SelectSeq(nodes["humanoid"].children,
                               LAMBDA c : nodes[c].geometry = "SphereGeometry"))
        yaw == clampDeg(Mul(thetaAt(thetas, 2), 20, 1), -2000, 2000)
        n1 == IF head # <<>> THEN [nodes EXCEPT ![head[1]].ry = yaw] ELSE nodes
        n2 == poseArms(n1, thetas, armGroups(nodes))
    IN  poseLegs(n2, thetas, legGroups(nodes, proportions))

\* humanoid.position.y = clamp(groundOffset, 0, proportions.height)
liftHumanoid(nodes, p) ==
    LET hipY == Mul(p.hipWidth, 1, 10)
        footHeight == Mul(p.limbRadius, 12, 10)
        groundOffset ==
            Add(Sub(Sub(Add(Add(p.thighLength, p.shinLength), Mul(footHeight, 5, 10)),
                        hipY),
                    Mul(footHeight, 5, 10)),
                Mul(p.limbRadius, 4, 10))
    IN  [nodes EXCEPT !["humanoid"].y = clamp(groundOffset, 0, p.height)]

(***************************************************************************)
(* Inputs of buildMesh                                                     *)
(***************************************************************************)
\* betas has 10 entries, thetas 72
NumBetas == 10

NumThetas == 72

\* keypoint scalings x,y -> k*x, k*y are tried for k in 2..MaxScale
MaxScale == 3

\* fixed-point rounding allowed when two results are compared, in 0.00001
RoundingTol == 50

Kp(name, x, y, confidence) == [name |-> name, x |-> x, y |-> y, confidence |-> confidence]

\* a null / undefined array entry
NullKp == Kp("", Null, Null, Null)

JointNames ==
    <<"nose", "neck", "right_shoulder", "right_elbow", "right_wrist",
      "left_shoulder", "left_elbow", "left_wrist", "right_hip", "right_knee",
      "right_ankle", "left_hip", "left_knee", "left_ankle", "right_eye",
      "left_eye", "right_ear">>

\* the 17 joints with the given coordinates and the mock confidences
Figure(xy) ==
    LET conf == <<95, 92, 88, 85, 82, 89, 86, 83, 90, 87, 84, 91, 88, 85, 80, 81, 78>>
    IN  [i \in 1..17 |-> Kp(JointNames[i], xy[i][1], xy[i][2], conf[i])]

\* the detector's standing figure (generateMockKeypoints)
StandingFigure ==
    Figure(<<<<500, 150>>, <<500, 200>>, <<400, 200>>, <<350, 300>>, <<320, 400>>,
             <<600, 200>>, <<650, 300>>, <<680, 400>>, <<450, 500>>, <<440, 700>>,
             <<430, 900>>, <<550, 500>>, <<560, 700>>, <<570, 900>>, <<480, 140>>,
             <<520, 140>>, <<460, 160>>>>)

\* a person far from the camera: head to ankles is 0.2 of the image
DistantFigure ==
    Figure(<<<<500, 400>>, <<500, 410>>, <<480, 410>>, <<470, 440>>, <<465, 470>>,
             <<520, 410>>, <<530, 440>>, <<535, 470>>, <<490, 480>>, <<488, 540>>,
             <<486, 600>>, <<510, 480>>, <<512, 540>>, <<514, 600>>, <<496, 398>>,
             <<504, 398>>, <<492, 402>>>>)

\* a bent-over figure: shoulders and hips detected wide apart, neck close above the hips
CrouchedFigure ==
    Figure(<<<<500, 150>>, <<500, 400>>, <<340, 380>>, <<320, 450>>, <<310, 520>>,
             <<660, 380>>, <<680, 450>>, <<690, 520>>, <<400, 500>>, <<440, 700>>,
             <<430, 900>>, <<600, 500>>, <<560, 700>>, <<570, 900>>, <<480, 140>>,
             <<520, 140>>, <<460, 160>>>>)

\* the standing figure seen from the side: left and right shoulders coincide,
\* and so do the hips
ProfileFigure ==
    Figure(<<<<500, 150>>, <<500, 200>>, <<400, 200>>, <<350, 300>>, <<320, 400>>,
             <<400, 200>>, <<650, 300>>, <<680, 400>>, <<450, 500>>, <<440, 700>>,
             <<430, 900>>, <<450, 500>>, <<560, 700>>, <<570, 900>>, <<480, 140>>,
             <<520, 140>>, <<460, 160>>>>)

\* every joint detected at the same point
CollapsedFigure == Figure([i \in 1..17 |-> <<500, 500>>])

\* nose and the two ankles only
NoseAnklesFigure ==
    <<Kp("nose", 500, 100, 90), Kp("left_ankle", 450, 950, 80),
      Kp("right_ankle", 550, 950, 80)>>

\* the standing figure with every joint below the confidence threshold
FaintFigure == [i \in 1..17 |-> [StandingFigure[i] EXCEPT !.confidence = 20]]

\* the nose reported twice, at two positions
DoubledNoseFigure == NoseAnklesFigure \o <<Kp("nose", 500, 200, 60)>>

\* the nose detected at the midpoint of the ankles, the shoulders above them
NoseAtAnklesFigure ==
    <<Kp("nose", 500, 950, 90), Kp("left_ankle", 450, 950, 80),
      Kp("right_ankle", 550, 950, 80), Kp("left_shoulder", 600, 200, 89),
      Kp("right_shoulder", 400, 200, 88)>>

Figures ==
    {StandingFigure, DistantFigure, CrouchedFigure, ProfileFigure,
     CollapsedFigure, NoseAnklesFigure}

FullFigures ==
    {StandingFigure, DistantFigure, CrouchedFigure, ProfileFigure, CollapsedFigure}

\* one joint of the list degraded in one way
Degrade(list, name, how) ==
    IF how = "absent" THEN SelectSeq(list, LAMBDA k : k.name # name)
    ELSE [i \in 1..Len(list) |->
            IF list[i].name # name THEN list[i]
            ELSE IF how = "lowconf" THEN [list[i] EXCEPT !.confidence = 20]
            ELSE IF how = "nocoords" THEN [list[i] EXCEPT !.x = Null, !.y = Null]
            ELSE IF how = "noname" THEN [list[i] EXCEPT !.name = ""]
            ELSE NullKp]

Degradations ==
    {<<JointNames[i], "absent">> : i \in 1..17}
    \cup ({"nose", "left_shoulder", "left_hip", "left_ankle"}
          \X {"lowconf", "nocoords", "noname", "null"})

KeypointLists ==
    Figures \cup {FaintFigure, DoubledNoseFigure, NoseAtAnklesFigure} \cup {Degrade(f, d[1], d[2]) : f \in Figures, d \in Degradations}

KeypointsInputs ==
    {Absent, Array(<<>>), [kind |-> "object", elems |-> <<>>]}
    \cup {Array(l) : l \in KeypointLists}

\* x and y of every keypoint multiplied by k
ScaleKeypoints(list, k) ==
    [i \in 1..Len(list) |->
        [list[i] EXCEPT !.x = Mul(list[i].x, k, 1), !.y = Mul(list[i].y, k, 1)]]

BetasInputs ==
    {Absent,
     Array([i \in 1..NumBetas |-> 0]),
     Array([i \in 1..NumBetas |-> IF i % 2 = 1 THEN 10000 ELSE -10000]),
     Array([i \in 1..NumBetas |-> IF i % 2 = 1 THEN -10000 ELSE 10000]),
     Array(<<50, -50>>),
     Array(<<Str, 0, 0, 0>>),
     [kind |-> "string", elems |-> <<Str, Str, Str>>]}

ThetasInputs ==
    {Absent,
     Array([i \in 1..NumThetas |-> (((i * 3) % 7) - 3) * 40]),
     Array([i \in 1..NumThetas |-> 100000]),
     Array([i \in 1..NumThetas |-> -100000]),
     Array([i \in 1..10 |-> (((i * 3) % 7) - 3) * (0 - 40)]),
     [kind |-> "string", elems |-> [i \in 1..NumThetas |-> Str]]}

SmplInputs ==
    [betas : BetasInputs, thetas : ThetasInputs, keypoints : KeypointsInputs]

(***************************************************************************)
(* buildMesh as a state machine.  After the await the call runs            *)
(* createProceduralHumanoid synchronously; pc follows it through           *)
(* deriveProportions, the assembly, applyMockPose and the final lift.      *)
(***************************************************************************)
VARIABLES
    pc,           \* position of the buildMesh call
    smplParams,   \* the argument of the buildMesh call
    base,         \* deriveBaseProportions' record
    kp,           \* the KeypointMap
    measures,     \* measures of deriveProportionsFromKeypoints
    warnings,     \* warnings of deriveProportionsFromKeypoints
    proportions,  \* the ProportionRecord of createProceduralHumanoid
    log,          \* logger.warn messages of deriveProportions
    nodes,        \* the hierarchy
    error,        \* what the promise rejected with
    calls,        \* the buildMesh invocations in flight and what they settled with
    heap,         \* the hierarchies allocated so far, by allocation number
    runs,         \* the processImage runs: position, callback, results
    hook          \* the state of usePipeline

vars ==
    <<pc, smplParams, base, kp, measures, warnings, proportions, log, nodes, error,
      calls, heap, runs, hook>>

\* pipelineConfig.inferenceMode === 'real' and pipelineConfig.models.smplModel.enabled
isRealInference == TRUE

smplModelEnabled == FALSE

\* two invocations of buildMesh
CallIds == {1, 2}

\* an invocation that was not made yet
NotCalled ==
    [status |-> "notCalled",
     params |-> [betas |-> Absent, thetas |-> Absent, keypoints |-> Absent],
     root |-> 0,
     proportions |-> noMeasures,
     error |-> "",
     overlapped |-> FALSE]

NoParams == [betas |-> Absent, thetas |-> Absent, keypoints |-> Absent]

emptyMap == [n \in {} |-> NullKp]

\* the processImage runs a session may start
RunIds == {1, 2}

\* a run that was not started.  keypoints, smpl and metadata hold the number of
\* the run whose object they are and mesh the allocation number of the
\* hierarchy, 0 standing for no object; onProgress is "null", "callback" (a
\* caller's own function) or "handleProgress" (the hook's); process is where the
\* hook's process call stands, order the rank of the call among those started
NotStarted ==
    [pc |-> "notStarted",
     onProgress |-> "null",
     callbacks |-> <<>>,
     keypoints |-> 0,
     smpl |-> 0,
     smplParams |-> NoParams,
     mesh |-> 0,
     metadata |-> 0,
     error |-> "",
     process |-> "none",
     order |-> 0]

\* the useState initial values; null is 0 for the objects and "" for the error
InitHook ==
    [loading |-> FALSE,
     stage |-> "idle",
     progress |-> 0,
     keypoints |-> 0,
     smpl |-> 0,
     mesh |-> 0,
     metadata |-> 0,
     error |-> ""]

Init ==
    /\ pc = "idle"
    /\ smplParams = NoParams
    /\ base = noMeasures
    /\ kp = emptyMap
    /\ measures = noMeasures
    /\ warnings = <<>>
    /\ proportions = noMeasures
    /\ log = <<>>
    /\ nodes = noNodes
    /\ error = ""
    /\ calls = [i \in CallIds |-> NotCalled]
    /\ heap = <<>>
    /\ runs = [r \in RunIds |-> NotStarted]
    /\ hook = InitHook

\* buildMesh(smplParams) up to its await: the real-SMPL branch dereferences the
\* null model and throws, the mock branch waits for the delay
CallBuildMesh ==
    /\ pc = "idle"
    /\ \E p \in SmplInputs : smplParams' = p
    /\ pc' = IF isRealInference /\ smplModelEnabled THEN "throwing" ELSE "awaitDelay"
    /\ UNCHANGED <<base, kp, measures, warnings, proportions, log, nodes, error, calls, heap, runs, hook>>

\* the delay elapses; deriveProportions computes the baseline and looks at keypoints
DeriveBase ==
    /\ pc = "awaitDelay"
    /\ LET b == deriveBaseProportions(smplParams)
       IN  /\ base' = [f \in Fields |-> b[f]]
           /\ IF b.threw THEN
                 /\ pc' = "throwing"
                 /\ UNCHANGED <<proportions, log>>
              ELSE IF noKeypoints(smplParams.keypoints) THEN
                 /\ pc' = "assemble"
                 /\ proportions' = [f \in Fields |-> b[f]]
                 /\ log' = fallbackLog
              ELSE IF ~hasReduce(smplParams.keypoints) THEN
                 /\ pc' = "throwing"
                 /\ UNCHANGED <<proportions, log>>
              ELSE
                 /\ pc' = "mapKeypoints"
                 /\ UNCHANGED <<proportions, log>>
    /\ UNCHANGED <<smplParams, kp, measures, warnings, nodes, error, calls, heap, runs, hook>>

\* deriveProportionsFromKeypoints: const kp = buildKeypointMap(keypoints)
MapKeypoints ==
    /\ pc = "mapKeypoints"
    /\ kp' = buildKeypointMap(smplParams.keypoints.elems, 30)
    /\ pc' = "measure"
    /\ UNCHANGED <<smplParams, base, measures, warnings, proportions, log, nodes, error, calls, heap, runs, hook>>

\* the rest of deriveProportionsFromKeypoints
MeasureKeypoints ==
    /\ pc = "measure"
    /\ LET r == measuresFromMap(kp, base)
       IN  /\ measures' = r.measures
           /\ warnings' = r.warnings
    /\ pc' = "merge"
    /\ UNCHANGED <<smplParams, base, kp, proportions, log, nodes, error, calls, heap, runs, hook>>

\* back in deriveProportions: warn, merge
MergeProportions ==
    /\ pc = "merge"
    /\ proportions' = mergeProportions(measures, base)
    /\ log' = mixedLog(warnings)
    /\ pc' = "assemble"
    /\ UNCHANGED <<smplParams, base, kp, measures, warnings, nodes, error, calls, heap, runs, hook>>

\* createProceduralHumanoid builds the hierarchy
AssembleHumanoid ==
    /\ pc = "assemble"
    /\ nodes' = assembleHumanoid(proportions)
    /\ pc' = "pose"
    /\ UNCHANGED <<smplParams, base, kp, measures, warnings, proportions, log, error, calls, heap, runs, hook>>

\* applyMockPose(humanoid, smplParams?.thetas || [], proportions)
ApplyPose ==
    /\ pc = "pose"
    /\ nodes' = applyMockPose(nodes, thetasOrEmpty(smplParams), proportions)
    /\ pc' = "lift"
    /\ UNCHANGED <<smplParams, base, kp, measures, warnings, proportions, log, error, calls, heap, runs, hook>>

\* the root is lifted, createProceduralHumanoid returns, the promise resolves
ReturnMesh ==
    /\ pc = "lift"
    /\ nodes' = liftHumanoid(nodes, proportions)
    /\ pc' = "returned"
    /\ UNCHANGED <<smplParams, base, kp, measures, warnings, proportions, log, error, calls, heap, runs, hook>>

\* an exception reaches buildMesh's catch, which logs and rethrows it
RejectMesh ==
    /\ pc = "throwing"
    /\ error' = "TypeError"
    /\ pc' = "rejected"
    /\ UNCHANGED <<smplParams, base, kp, measures, warnings, proportions, log, nodes, calls, heap, runs, hook>>

Next ==
    \/ CallBuildMesh
    \/ DeriveBase
    \/ MapKeypoints
    \/ MeasureKeypoints
    \/ MergeProportions
    \/ AssembleHumanoid
    \/ ApplyPose
    \/ ReturnMesh
    \/ RejectMesh

Spec == Init /\ [][Next]_vars

(***************************************************************************)
(* Overlapping invocations.  buildMesh runs up to its await, and after the  *)
(* delay createProceduralHumanoid runs to completion before any other       *)
(* callback: the variables pc .. error hold the invocation that is running. *)
(***************************************************************************)
ConcurrentInputs ==
    [betas : {Array([i \in 1..NumBetas |-> 0]),
              Array([i \in 1..NumBetas |-> IF i = 5 THEN 500 ELSE IF i = 6 THEN -300 ELSE 0]),
              Array([i \in 1..NumBetas |-> IF i = 1 THEN 100 ELSE IF i = 4 THEN -50 ELSE 20])},
     thetas : {Absent, Array([i \in 1..NumThetas |-> (((i * 3) % 7) - 3) * 40])},
     keypoints : {Absent, Array(<<>>), Array(StandingFigure),
                  [kind |-> "object", elems |-> <<>>]}]

\* faulty variant: one hierarchy is kept and handed out again
newGroup_cached(h) == 1

\* const humanoid = new THREE.Group(): the allocation number of a fresh hierarchy
newGroup(h) == Len(h) + 1

Running == \E i \in CallIds : calls[i].status = "running"

\* buildMesh(params) is called and reaches its await; overlapped records that
\* another invocation was waiting for its delay at that moment
Invoke(i) ==
    /\ pc = "idle"
    /\ ~Running
    /\ calls[i].status = "notCalled"
    /\ \E p \in ConcurrentInputs :
           calls' = [j \in CallIds |->
                        IF j = i
                        THEN [calls[i] EXCEPT
                                 !.params = p,
                                 !.status = IF isRealInference /\ smplModelEnabled
                                            THEN "rejected" ELSE "awaiting",
                                 !.overlapped =
                                     \E k \in CallIds : calls[k].status = "awaiting"]
                        ELSE IF calls[j].status = "awaiting"
                        THEN [calls[j] EXCEPT !.overlapped = TRUE]
                        ELSE calls[j]]
    /\ UNCHANGED <<pc, smplParams, base, kp, measures, warnings, proportions, log,
                   nodes, error, heap, runs, hook>>

\* the delay of invocation i elapses: createProceduralHumanoid(params) starts
Resume(i) ==
    /\ pc = "idle"
    /\ ~Running
    /\ calls[i].status = "awaiting"
    /\ calls' = [calls EXCEPT ![i].status = "running", ![i].root = newGroup(heap)]
    /\ heap' = IF newGroup(heap) > Len(heap) THEN Append(heap, noNodes) ELSE heap
    /\ smplParams' = calls[i].params
    /\ pc' = "awaitDelay"
    /\ UNCHANGED <<base, kp, measures, warnings, proportions, log, nodes, error,
                   runs, hook>>

\* the promise of the running invocation settles; its locals go out of scope
Settle ==
    /\ pc \in {"returned", "rejected"}
    /\ \E i \in CallIds :
           /\ calls[i].status = "running"
           /\ IF pc = "returned"
              THEN /\ calls' = [calls EXCEPT ![i].status = "resolved",
                                             ![i].proportions = proportions]
                   /\ heap' = [heap EXCEPT ![calls[i].root] = nodes]
              ELSE /\ calls' = [calls EXCEPT ![i].status = "rejected",
                                             ![i].root = 0,
                                             ![i].error = error]
                   /\ UNCHANGED heap
    /\ pc' = "idle"
    /\ smplParams' = NoParams
    /\ base' = noMeasures
    /\ kp' = emptyMap
    /\ measures' = noMeasures
    /\ warnings' = <<>>
    /\ proportions' = noMeasures
    /\ log' = <<>>
    /\ nodes' = noNodes
    /\ error' = ""
    /\ UNCHANGED <<runs, hook>>

ConcurrentNext ==
    \/ \E i \in CallIds : Invoke(i)
    \/ \E i \in CallIds : Resume(i)
    \/ DeriveBase
    \/ MapKeypoints
    \/ MeasureKeypoints
    \/ MergeProportions
    \/ AssembleHumanoid
    \/ ApplyPose
    \/ ReturnMesh
    \/ RejectMesh
    \/ Settle

ConcurrentSpec == Init /\ [][ConcurrentNext]_vars

(***************************************************************************)
(* buildMesh without keypoints: deriveProportions returns the baseline of   *)
(* deriveBaseProportions.  The betas are every array of up to MaxGivenBetas *)
(* entries over values that leave the four shape terms inside their clamp   *)
(* bands (-0.5, 0, 1.5) and push them out of it (-3, 4).                    *)
(***************************************************************************)
MaxGivenBetas == 4

BetaValues == {-300, -50, 0, 150, 400}

FallbackBetas ==
    {Absent} \cup {Array(b) : b \in UNION {[1..n -> BetaValues] : n \in 0..MaxGivenBetas}}

FallbackInputs ==
    [betas : FallbackBetas, thetas : {Absent}, keypoints : {Absent, Array(<<>>)}]

\* buildMesh(smplParams) up to its await, for a caller that has no keypoints
CallWithoutKeypoints ==
    /\ pc = "idle"
    /\ \E p \in FallbackInputs : smplParams' = p
    /\ pc' = IF isRealInference /\ smplModelEnabled THEN "throwing" ELSE "awaitDelay"
    /\ UNCHANGED <<base, kp, measures, warnings, proportions, log, nodes, error, calls, heap, runs, hook>>

FallbackNext ==
    \/ CallWithoutKeypoints
    \/ DeriveBase
    \/ AssembleHumanoid
    \/ ApplyPose
    \/ ReturnMesh

FallbackSpec == Init /\ [][FallbackNext]_vars

(***************************************************************************)
(* processImage: three awaited stages with progress callbacks in between,   *)
(* and the usePipeline hook whose process hands handleProgress to it.  A    *)
(* run waits at extractKeypoints, at fitSMPL and at buildMesh; what runs    *)
(* between two awaits is one step.  The third stage is the buildMesh state  *)
(* machine above, which one run at a time goes through, as the code after   *)
(* buildMesh's await is synchronous.                                        *)
(***************************************************************************)
\* the data argument of a callback made before any result exists
NoData == [keypoints |-> 0, smpl |-> 0, mesh |-> 0]

\* the data argument { keypoints, smpl, mesh } of a run's callbacks
Data(run) == [keypoints |-> run.keypoints, smpl |-> run.smpl, mesh |-> run.mesh]

Report(stage, progress, data) == [stage |-> stage, progress |-> progress, data |-> data]

\* the callback sequence with the first report left out
called_skipFirst(run, reports) ==
    IF run.onProgress = "null" \/ reports = <<>>
    THEN run.callbacks
    ELSE run.callbacks \o
         [i \in 1..(Len(reports) - 1) |-> <<reports[i + 1].stage, reports[i + 1].progress>>]

\* if (onProgress) onProgress(stage, progress, data), for each report in turn:
\* the (stage, progress) pairs the run has passed to its callback
called(run, reports) ==
    IF run.onProgress = "null"
    THEN run.callbacks
    ELSE run.callbacks \o
         [i \in 1..Len(reports) |-> <<reports[i].stage, reports[i].progress>>]

\* handleProgress(currentStage, currentProgress, data) on the hook state h
handleProgress(h, report) ==
    [h EXCEPT !.stage = report.stage,
              !.progress = report.progress,
              !.keypoints = IF report.data.keypoints # 0 THEN report.data.keypoints ELSE @,
              !.smpl = IF report.data.smpl # 0 THEN report.data.smpl ELSE @,
              !.mesh = IF report.data.mesh # 0 THEN report.data.mesh ELSE @]

\* the hook state after the reports of a run whose callback is onProgress
RECURSIVE notify(_, _, _)
notify(h, onProgress, reports) ==
    IF reports = <<>> \/ onProgress # "handleProgress"
    THEN h
    ELSE notify(handleProgress(h, reports[1]), onProgress, Tail(reports))

\* process clears the hook state before it calls processImage
processStarted(h) ==
    [h EXCEPT !.loading = TRUE,
              !.error = "",
              !.stage = "extracting-keypoints",
              !.progress = 0,
              !.keypoints = 0,
              !.smpl = 0,
              !.mesh = 0,
              !.metadata = 0]

\* process that leaves loading set when processImage has settled
processSettled_stillLoading(h, run) ==
    IF run.pc = "resolved"
    THEN [h EXCEPT !.keypoints = run.keypoints,
                   !.smpl = run.smpl,
                   !.mesh = run.mesh,
                   !.metadata = run.metadata,
                   !.stage = "complete",
                   !.progress = 100]
    ELSE [h EXCEPT !.error = run.error,
                   !.stage = "error",
                   !.progress = 0]

\* process after await processImage: the rest of the try block or the catch
\* block, then the finally block
processSettled(h, run) ==
    IF run.pc = "resolved"
    THEN [h EXCEPT !.keypoints = run.keypoints,
                   !.smpl = run.smpl,
                   !.mesh = run.mesh,
                   !.metadata = run.metadata,
                   !.stage = "complete",
                   !.progress = 100,
                   !.loading = FALSE]
    ELSE [h EXCEPT !.error = run.error,
                   !.stage = "error",
                   !.progress = 0,
                   !.loading = FALSE]

\* Math.abs(v) < bound
inRange(v, bound) ==
    IF v = Null THEN TRUE
    ELSE IF v \in {NaN, Str} THEN FALSE
    ELSE (IF v < 0 THEN -v ELSE v) < bound

\* validateSMPLParams(params): every on something that is not an array throws
validateSMPLParams(params) ==
    IF params.betas.kind # "array" \/ params.thetas.kind # "array"
    THEN "throws"
    ELSE IF /\ \A i \in 1..Len(params.betas.elems) : inRange(params.betas.elems[i], 500)
            /\ \A i \in 1..Len(params.thetas.elems) : inRange(params.thetas.elems[i], 315)
    THEN "valid"
    ELSE "invalid"

\* what fitSMPL resolves with: the mock's arrays, with or without the
\* keypoints attached, and a regressor's answer that lacks the arrays or whose
\* keypoints are not a list
FitOutcomes ==
    [betas : {Array([i \in 1..NumBetas |-> 0]),
              Array([i \in 1..NumBetas |-> IF i = 1 THEN 100 ELSE IF i = 4 THEN -50 ELSE 20])},
     thetas : {Array([i \in 1..NumThetas |-> (((i * 3) % 7) - 3) * 40])},
     keypoints : {Absent, Array(StandingFigure), [kind |-> "object", elems |-> <<>>]}]
    \cup {NoParams}

\* the number of runs started so far
Started == Cardinality({r \in RunIds : runs[r].order > 0})

\* processImage(imageFile, onProgress) up to its first await
processImageStarted(onProgress, process) ==
    [NotStarted EXCEPT
        !.pc = "extractKeypoints",
        !.onProgress = onProgress,
        !.callbacks = IF onProgress = "null" THEN <<>> ELSE <<<<"extracting-keypoints", 0>>>>,
        !.process = process,
        !.order = Started + 1]

\* run r goes on to record nr after making the reports; the process call that
\* awaits the run continues once the run has settled
Advance(r, nr, reports) ==
    LET settled == nr.pc \in {"resolved", "rejected"}
        done == [nr EXCEPT !.callbacks = called(runs[r], reports),
                           !.process = IF @ = "pending" /\ settled THEN nr.pc ELSE @]
        told == notify(hook, runs[r].onProgress, reports)
    IN  /\ runs' = [runs EXCEPT ![r] = done]
        /\ hook' = IF runs[r].process = "pending" /\ settled
                   THEN processSettled(told, done)
                   ELSE told

\* the catch block of processImage: onProgress('error', 0, { error }), rethrow
Catch(r, err) ==
    Advance(r, [runs[r] EXCEPT !.pc = "rejected", !.mesh = 0, !.error = err],
            <<Report("error", 0, NoData)>>)

\* a caller other than the hook calls processImage, with or without a callback,
\* and calls it again only after the earlier run has settled (as processBatch)
CallProcessImage(r) ==
    /\ runs[r].pc = "notStarted"
    /\ \A q \in RunIds : /\ runs[q].pc \in {"notStarted", "resolved", "rejected"}
                         /\ runs[q].process = "none"
    /\ \E onProgress \in {"null", "callback"} :
           runs' = [runs EXCEPT ![r] = processImageStarted(onProgress, "none")]
    /\ UNCHANGED <<pc, smplParams, base, kp, measures, warnings, proportions, log, nodes,
                   error, calls, heap, hook>>

\* process(file) of the hook up to its await
Process(r, file) ==
    /\ runs[r].pc = "notStarted"
    /\ runs[r].process = "none"
    /\ IF file
       THEN /\ runs' = [runs EXCEPT ![r] = processImageStarted("handleProgress", "pending")]
            /\ hook' = notify(processStarted(hook), "handleProgress",
                              <<Report("extracting-keypoints", 0, NoData)>>)
       ELSE /\ runs' = [runs EXCEPT ![r].process = "noFile"]
            /\ hook' = [hook EXCEPT !.error = "No file provided", !.stage = "error"]
    /\ UNCHANGED <<pc, smplParams, base, kp, measures, warnings, proportions, log, nodes,
                   error, calls, heap>>

\* reset() of the hook
Reset ==
    /\ hook' = InitHook
    /\ UNCHANGED <<pc, smplParams, base, kp, measures, warnings, proportions, log, nodes,
                   error, calls, heap, runs>>

\* extractKeypoints settles: the list goes to the callback twice, or the catch
ExtractKeypointsSettles(r) ==
    /\ runs[r].pc = "extractKeypoints"
    /\ \/ LET nr == [runs[r] EXCEPT !.pc = "fitSMPL", !.keypoints = r]
          IN  Advance(r, nr, <<Report("extracting-keypoints", 33, Data(nr)),
                               Report("fitting-smpl", 33, Data(nr))>>)
       \/ Catch(r, "KeypointError")
    /\ UNCHANGED <<pc, smplParams, base, kp, measures, warnings, proportions, log, nodes,
                   error, calls, heap>>

\* fitSMPL settles: validateSMPLParams reads the arrays, then two callbacks and
\* buildMesh(smpl) up to its await
FitSMPLSettles(r) ==
    /\ runs[r].pc = "fitSMPL"
    /\ \/ \E s \in FitOutcomes :
              IF validateSMPLParams(s) = "throws"
              THEN Catch(r, "TypeError")
              ELSE LET nr == [runs[r] EXCEPT !.pc = "buildMesh", !.smpl = r,
                                             !.smplParams = s]
                   IN  Advance(r, nr, <<Report("fitting-smpl", 66, Data(nr)),
                                        Report("building-mesh", 66, Data(nr))>>)
       \/ Catch(r, "SMPLError")
    /\ UNCHANGED <<pc, smplParams, base, kp, measures, warnings, proportions, log, nodes,
                   error, calls, heap>>

\* the delay of buildMesh elapses for run r: createProceduralHumanoid starts
MeshResumes(r) ==
    /\ runs[r].pc = "buildMesh"
    /\ pc = "idle"
    /\ ~Running
    /\ runs' = [runs EXCEPT ![r].pc = "createProceduralHumanoid",
                            ![r].mesh = newGroup(heap)]
    /\ heap' = Append(heap, noNodes)
    /\ smplParams' = runs[r].smplParams
    /\ pc' = IF isRealInference /\ smplModelEnabled THEN "throwing" ELSE "awaitDelay"
    /\ UNCHANGED <<base, kp, measures, warnings, proportions, log, nodes, error, calls,
                   hook>>

\* buildMesh settles: the last two callbacks and the result, or the catch
MeshSettles(r) ==
    /\ runs[r].pc = "createProceduralHumanoid"
    /\ pc \in {"returned", "rejected"}
    /\ IF pc = "returned"
       THEN /\ LET nr == [runs[r] EXCEPT !.pc = "resolved", !.metadata = r]
               IN  Advance(r, nr, <<Report("building-mesh", 100, Data(nr)),
                                    Report("complete", 100, Data(nr))>>)
            /\ heap' = [heap EXCEPT ![runs[r].mesh] = nodes]
       ELSE /\ Catch(r, error)
            /\ UNCHANGED heap
    /\ pc' = "idle"
    /\ smplParams' = NoParams
    /\ base' = noMeasures
    /\ kp' = emptyMap
    /\ measures' = noMeasures
    /\ warnings' = <<>>
    /\ proportions' = noMeasures
    /\ log' = <<>>
    /\ nodes' = noNodes
    /\ error' = ""
    /\ UNCHANGED calls

PipelineNext ==
    \/ \E r \in RunIds : CallProcessImage(r)
    \/ \E r \in RunIds : ExtractKeypointsSettles(r)
    \/ \E r \in RunIds : FitSMPLSettles(r)
    \/ \E r \in RunIds : MeshResumes(r)
    \/ DeriveBase
    \/ MapKeypoints
    \/ MeasureKeypoints
    \/ MergeProportions
    \/ AssembleHumanoid
    \/ ApplyPose
    \/ ReturnMesh
    \/ RejectMesh
    \/ \E r \in RunIds : MeshSettles(r)

PipelineSpec == Init /\ [][PipelineNext]_vars

\* process calls, overlapping or not, and the runs they start
ProcessNext ==
    \/ \E r \in RunIds, file \in BOOLEAN : Process(r, file)
    \/ \E r \in RunIds : ExtractKeypointsSettles(r)
    \/ \E r \in RunIds : FitSMPLSettles(r)
    \/ \E r \in RunIds : MeshResumes(r)
    \/ DeriveBase
    \/ MapKeypoints
    \/ MeasureKeypoints
    \/ MergeProportions
    \/ AssembleHumanoid
    \/ ApplyPose
    \/ ReturnMesh
    \/ RejectMesh
    \/ \E r \in RunIds : MeshSettles(r)

ProcessSpec == Init /\ [][ProcessNext]_vars

\* the hook with its reset as well
HookNext ==
    \/ ProcessNext
    \/ Reset

HookSpec == Init /\ [][HookNext]_vars

(***************************************************************************)
(* Properties                                                              *)
(***************************************************************************)
\* a missing field or an array of numbers
NumericOrMissing(c) ==
    /\ c.kind \in {"absent", "array"}
    /\ \A i \in 1..Len(c.elems) : IsNum(c.elems[i])

Within(v, lo, hi) == IsNum(v) /\ lo <= v /\ v <= hi

\* a rotation within [min, max] hundredths of a degree, converted to radians
InBand(rot, min, max) == Within(rot, Mul(min, 174533, 1000), Mul(max, 174533, 1000))

Posed == pc \in {"lift", "returned"}

\* C1: for any numeric thetas and any record deriveProportions returns, after
\* applyMockPose the head's Y rotation is within +-20 degrees, each arm group's
\* X rotation within +-40 and Z rotation within +-25, each elbow group's X
\* rotation within [-5, 90], each leg group's X rotation within [-30, 35] and
\* each knee group's X rotation within [-10, 90] degrees.
C1_RotationsWithinBands ==
    (Posed /\ NumericOrMissing(smplParams.thetas)) =>
        /\ InBand(nodes.head.ry, -2000, 2000)
        /\ \A g \in {"rightArmGroup", "leftArmGroup"} :
               /\ InBand(nodes[g].rx, -4000, 4000)
               /\ InBand(nodes[g].rz, -2500, 2500)
        /\ \A g \in {"rightForearmGroup", "leftForearmGroup"} :
               InBand(nodes[g].rx, -500, 9000)
        /\ \A g \in {"rightLegGroup", "leftLegGroup"} :
               InBand(nodes[g].rx, -3000, 3500)
        /\ \A g \in {"rightShinGroup", "leftShinGroup"} :
               InBand(nodes[g].rx, -1000, 9000)

\* the documented band of a field: the baseline clamp for height and limb
\* radius, the span around the baseline value for the measured fields
DocumentedBand(f) ==
    IF f = "height" THEN <<145000, 195000>>
    ELSE IF f = "limbRadius" THEN <<3000, 7000>>
    ELSE IF f = "hipWidth" THEN <<Mul(base[f], 2, 10), Mul(base[f], 18, 10)>>
    ELSE <<Mul(base[f], 4, 10), Mul(base[f], 16, 10)>>

WellFormedCall ==
    /\ NumericOrMissing(smplParams.betas)
    /\ smplParams.keypoints.kind \in {"absent", "array"}

\* C2: every field of a ProportionRecord returned by deriveProportions is a
\* positive finite number inside its documented clamp band.
C2_FieldsInsideBands ==
    (pc = "returned" /\ WellFormedCall) =>
        \A f \in Fields :
            /\ IsNum(proportions[f])
            /\ proportions[f] > 0
            /\ Within(proportions[f], DocumentedBand(f)[1], DocumentedBand(f)[2])

\* C3: the height of every returned ProportionRecord lies in [1.45, 1.95], on
\* the keypoint-driven path as on the fallback path.
C3_HeightBand ==
    (pc \in {"assemble", "returned"} /\ WellFormedCall) =>
        Within(proportions.height, 145000, 195000)

\* two confident keypoints detected at the same position
Coincide(a, b) ==
    /\ a \in DOMAIN kp /\ b \in DOMAIN kp
    /\ IsNum(kp[a].x) /\ IsNum(kp[a].y) /\ IsNum(kp[b].x) /\ IsNum(kp[b].y)
    /\ kp[a].x = kp[b].x /\ kp[a].y = kp[b].y

\* C4: a zero-distance keypoint pair is treated as undefined: coincident
\* shoulders or hips leave the width at its baseline value, a zero height
\* estimate leaves the height at its baseline value, and no field is NaN.
C4_ZeroDistanceUndefined ==
    (pc = "returned" /\ WellFormedCall /\ smplParams.keypoints.kind = "array") =>
        /\ Coincide("left_shoulder", "right_shoulder") =>
               proportions.shoulderWidth = base.shoulderWidth
        /\ Coincide("left_hip", "right_hip") =>
               proportions.hipWidth = base.hipWidth
        /\ ~Truthy(heightNorm(kp)) => proportions.height = base.height
        /\ \A f \in Fields : IsNum(proportions[f])

\* base.height / heightNorm of the keypoints scaled by k lies strictly inside
\* the clamp band of the scale factor
Unclamped(k) ==
    LET h == heightNorm(buildKeypointMap(ScaleKeypoints(smplParams.keypoints.elems, k), 30))
        r == Mul(base.height, 1000, h)
    IN  Truthy(h) /\ IsNum(r) /\ 5000 < r /\ r < 30000

\* the record deriveProportions returns for the keypoints scaled by k
ScaledProportions(k) ==
    deriveProportions([smplParams EXCEPT
        !.keypoints = Array(ScaleKeypoints(smplParams.keypoints.elems, k))]).proportions

SameUpToRounding(p, q) ==
    \A f \in Fields : IsNum(p[f]) /\ IsNum(q[f]) /\ Abs(Sub(p[f], q[f])) <= RoundingTol

KeypointPathReturned ==
    /\ pc = "returned"
    /\ NumericOrMissing(smplParams.betas)
    /\ smplParams.keypoints.kind = "array"
    /\ Len(smplParams.keypoints.elems) > 0

\* C5 as stated: scaling x and y of every keypoint by the same k > 0 leaves
\* every field of the record deriveProportions returns unchanged.
C5_ScaleInvariant ==
    KeypointPathReturned =>
        \A k \in 2..MaxScale : SameUpToRounding(ScaledProportions(k), proportions)

\* C5 amended: scaling x and y of every keypoint by the same k > 0 leaves every
\* field of the returned record unchanged up to rounding, provided the height
\* estimate resolves and base.height / heightNorm is inside (0.5, 3.0) both
\* before and after the scaling.
C5_ScaleInvariantUnclamped ==
    KeypointPathReturned =>
        \A k \in 2..MaxScale :
            (Unclamped(1) /\ Unclamped(k)) =>
                SameUpToRounding(ScaledProportions(k), proportions)

C5_Witness ==
    /\ KeypointPathReturned
    /\ smplParams.keypoints = Array(StandingFigure)
    /\ Unclamped(1) /\ Unclamped(2)
    /\ proportions.shoulderWidth # base.shoulderWidth
    /\ heightNorm(buildKeypointMap(ScaleKeypoints(StandingFigure, 2), 30)) # heightNorm(kp)

\* name n is detected in list L with confidence and numeric coordinates
Detected(L, n) ==
    \E i \in 1..Len(L) :
        /\ L[i].name = n /\ IsNum(L[i].confidence) /\ L[i].confidence >= 30
        /\ IsNum(L[i].x) /\ IsNum(L[i].y)

\* twice the position of n in L
Pos2(L, n) ==
    LET i == CHOOSE j \in 1..Len(L) : L[j].name = n
    IN  <<2 * L[i].x, 2 * L[i].y>>

\* twice the midpoint of whichever of a, b is detected
Mid2(L, a, b) ==
    IF Detected(L, a) /\ Detected(L, b)
    THEN <<L[CHOOSE j \in 1..Len(L) : L[j].name = a].x
             + L[CHOOSE j \in 1..Len(L) : L[j].name = b].x,
           L[CHOOSE j \in 1..Len(L) : L[j].name = a].y
             + L[CHOOSE j \in 1..Len(L) : L[j].name = b].y>>
    ELSE IF Detected(L, a) THEN Pos2(L, a) ELSE Pos2(L, b)

Either(L, a, b) == Detected(L, a) \/ Detected(L, b)

\* both ends detected, at different positions
Apart(L, a, b) == Detected(L, a) /\ Detected(L, b) /\ Pos2(L, a) # Pos2(L, b)

HeadName(L) ==
    IF Detected(L, "nose") THEN "nose"
    ELSE IF Detected(L, "left_eye") THEN "left_eye" ELSE "right_eye"

NeckName(L) == IF Detected(L, "neck") THEN "neck" ELSE "nose"

\* the measurement can be taken from the keypoints of L
Resolvable(L, segment) ==
    CASE segment = "shoulder width" -> Apart(L, "left_shoulder", "right_shoulder")
      [] segment = "hip width" -> Apart(L, "left_hip", "right_hip")
      [] segment = "upper arm length" ->
            Apart(L, "left_shoulder", "left_elbow") \/ Apart(L, "right_shoulder", "right_elbow")
      [] segment = "forearm length" ->
            Apart(L, "left_elbow", "left_wrist") \/ Apart(L, "right_elbow", "right_wrist")
      [] segment = "thigh length" ->
            Apart(L, "left_hip", "left_knee") \/ Apart(L, "right_hip", "right_knee")
      [] segment = "shin length" ->
            Apart(L, "left_knee", "left_ankle") \/ Apart(L, "right_knee", "right_ankle")
      [] segment = "head size" ->
            Apart(L, "left_eye", "right_eye") \/ Apart(L, "nose", "right_ear")
      [] segment = "torso length" ->
            /\ Detected(L, NeckName(L))
            /\ Either(L, "left_hip", "right_hip")
            /\ Pos2(L, NeckName(L)) # Mid2(L, "left_hip", "right_hip")
      [] segment = "overall height" ->
            /\ Either(L, "left_ankle", "right_ankle")
            /\ \/ /\ Detected(L, HeadName(L))
                  /\ Pos2(L, HeadName(L)) # Mid2(L, "left_ankle", "right_ankle")
               \/ /\ Either(L, "left_shoulder", "right_shoulder")
                  /\ Mid2(L, "left_shoulder", "right_shoulder")
                         # Mid2(L, "left_ankle", "right_ankle")

Segments ==
    {"shoulder width", "hip width", "upper arm length", "forearm length",
     "thigh length", "shin length", "head size", "torso length", "overall height"}

\* a full set of confident keypoints: all seventeen joints, every measurement
\* resolves from it
FullConfidentSet(L) ==
    /\ \A i \in 1..17 : Detected(L, JointNames[i])
    /\ \A g \in Segments : Resolvable(L, g)

\* every full confident set with one keypoint removed
SingleRemovals ==
    {Degrade(f, JointNames[i], "absent") :
        f \in {g \in FullFigures : FullConfidentSet(g)}, i \in 1..17}

\* the call's keypoints are a full confident set with one keypoint removed
OneKeypointRemoved ==
    /\ smplParams.keypoints.kind = "array"
    /\ Len(smplParams.keypoints.elems) = 16
    /\ smplParams.keypoints.elems \in SingleRemovals

ValidRecord(p) == \A f \in Fields : IsNum(p[f]) /\ p[f] > 0

\* C6: with any single keypoint removed from a full set of confident keypoints
\* deriveProportions does not throw, returns a record whose fields are all
\* positive numbers, and the warning list names, once each, exactly the
\* measurements that cannot be resolved from the remaining keypoints.
C6_SingleRemovalDegradesGracefully ==
    (OneKeypointRemoved /\ NumericOrMissing(smplParams.betas)) =>
        /\ pc \notin {"throwing", "rejected"}
        /\ pc \in {"merge", "assemble", "pose", "lift", "returned"} =>
              /\ {warnings[i] : i \in 1..Len(warnings)}
                     = {g \in Segments : ~Resolvable(smplParams.keypoints.elems, g)}
              /\ \A i, j \in 1..Len(warnings) : warnings[i] = warnings[j] => i = j
        /\ pc \in {"assemble", "pose", "lift", "returned"} => ValidRecord(proportions)

C6_Witness ==
    /\ pc = "returned"
    /\ OneKeypointRemoved
    /\ smplParams.keypoints.elems = Degrade(StandingFigure, "left_shoulder", "absent")
    /\ NumericOrMissing(smplParams.betas)
    /\ warnings = <<"shoulder width">>
    /\ ValidRecord(proportions)

\* C7: buildMesh rejects with an InvalidParameters error when betas or thetas
\* are not numeric sequences (a string, an object, an array holding a
\* non-number), and in no other case.
C7_InvalidParametersOnly ==
    pc \in {"returned", "rejected"} =>
        ((pc = "rejected" /\ error = "InvalidParameters")
            <=> ~(NumericOrMissing(smplParams.betas) /\ NumericOrMissing(smplParams.thetas)))

\* betas and thetas missing or numeric of any length, keypoints missing, empty
\* or a list of any entries
MissingOrPartial ==
    /\ NumericOrMissing(smplParams.betas)
    /\ NumericOrMissing(smplParams.thetas)
    /\ smplParams.keypoints.kind \in {"absent", "array"}

NodeNames ==
    {"humanoid", "torso", "head",
     "rightArmGroup", "rightUpperArm", "rightForearmGroup", "rightForearm", "rightHand",
     "leftArmGroup", "leftUpperArm", "leftForearmGroup", "leftForearm", "leftHand",
     "rightLegGroup", "rightThigh", "rightShinGroup", "rightShin", "rightFoot",
     "leftLegGroup", "leftThigh", "leftShinGroup", "leftShin", "leftFoot"}

\* the whole hierarchy is there and every position and rotation is a number
PosedHierarchy ==
    /\ DOMAIN nodes = NodeNames
    /\ Len(nodes.humanoid.children) = 6
    /\ \A n \in NodeNames :
           /\ IsNum(nodes[n].x) /\ IsNum(nodes[n].y) /\ IsNum(nodes[n].z)
           /\ IsNum(nodes[n].rx) /\ IsNum(nodes[n].ry) /\ IsNum(nodes[n].rz)

\* C8: with betas absent or short, thetas absent or short, keypoints absent,
\* empty or partial, in any combination, buildMesh never throws and its promise
\* never rejects; it returns a posed hierarchy, sized from the default
\* proportions where betas and keypoints are missing and left unturned where
\* thetas are missing.
C8_NoThrowOnMissingFields ==
    MissingOrPartial =>
        /\ pc \notin {"throwing", "rejected"}
        /\ error = ""
        /\ pc = "returned" =>
              /\ PosedHierarchy
              /\ ValidRecord(proportions)
              /\ smplParams.betas.kind = "absent" =>
                     /\ base.height = 170000 /\ base.shoulderWidth = 38000
                     /\ base.hipWidth = 28000 /\ base.limbRadius = 4000
              /\ noKeypoints(smplParams.keypoints) => proportions = base
              /\ smplParams.thetas.kind = "absent" => nodes.head.ry = 0

C8_Witness ==
    /\ pc = "returned"
    /\ smplParams = NoParams
    /\ PosedHierarchy
    /\ proportions.height = 170000

\* C9: for nose (0.5, 0.1), left_ankle (0.45, 0.95), right_ankle (0.55, 0.95)
\* only and ten zero betas the height is the nose-to-ankle distance scaled to
\* the baseline 1.7, every other field is the baseline default, and the
\* warnings are every measured segment except "overall height".
C9_NoseAndAnklesOnly ==
    (/\ pc = "returned"
     /\ smplParams.betas = Array([i \in 1..NumBetas |-> 0])
     /\ smplParams.keypoints = Array(NoseAnklesFigure)) =>
        /\ Within(proportions.height, 170000 - RoundingTol, 170000 + RoundingTol)
        /\ \A f \in Fields \ {"height"} : proportions[f] = base[f]
        /\ {warnings[i] : i \in 1..Len(warnings)} = Segments \ {"overall height"}

\* the field of measures a segment fills
SegmentField(segment) ==
    CASE segment = "shoulder width" -> "shoulderWidth"
      [] segment = "hip width" -> "hipWidth"
      [] segment = "upper arm length" -> "upperArmLength"
      [] segment = "forearm length" -> "forearmLength"
      [] segment = "thigh length" -> "thighLength"
      [] segment = "shin length" -> "shinLength"
      [] segment = "head size" -> "headRadius"
      [] segment = "torso length" -> "torsoLength"
      [] segment = "overall height" -> "height"

\* the estimator took no measurement for the segment
Unmeasured(segment) ==
    IF segment = "overall height" THEN ~Truthy(heightNorm(kp))
    ELSE measures[SegmentField(segment)] = Null

\* C10: when some keypoint is confident, every segment that fails to resolve
\* from the keypoints (torso length included) is named in the warnings
\* deriveProportionsFromKeypoints returns, and an unresolved segment never
\* makes the estimator throw.
C10_UnresolvedSegmentsNamed ==
    (smplParams.keypoints.kind = "array" /\ Len(smplParams.keypoints.elems) > 0) =>
        /\ pc \notin {"throwing", "rejected"}
        /\ (pc \in {"merge", "assemble", "pose", "lift", "returned"} /\ DOMAIN kp # {}) =>
              \A g \in Segments :
                  Unmeasured(g) => \E i \in 1..Len(warnings) : warnings[i] = g

\* the entry has a name and a confidence of at least t
Qualifies(e, t) == e.name # "" /\ IsNum(e.confidence) /\ e.confidence >= t

\* the keypoints argument is an array without a confident entry
NoConfidentKeypoint ==
    /\ smplParams.keypoints.kind = "array"
    /\ \A i \in 1..Len(smplParams.keypoints.elems) :
           ~Qualifies(smplParams.keypoints.elems[i], 30)

\* C11: when the keypoint list is empty or holds no keypoint with confidence at
\* or above the threshold, deriveProportions does not throw, returns exactly
\* the baseline record of deriveBaseProportions, and logs a warning that says
\* so.
C11_NoConfidentKeypointsFallback ==
    (NoConfidentKeypoint /\ NumericOrMissing(smplParams.betas)) =>
        /\ pc \notin {"throwing", "rejected"}
        /\ pc \in {"assemble", "pose", "lift", "returned"} =>
              /\ \A f \in Fields : proportions[f] = base[f]
              /\ \/ log = <<"No keypoints provided to mesh builder - falling back to betas">>
                 \/ log = <<"Using mixed keypoint/base proportions", "no confident keypoints">>

C11_Witness ==
    /\ pc = "returned"
    /\ smplParams.keypoints = Array(FaintFigure)
    /\ NumericOrMissing(smplParams.betas)
    /\ proportions = base
    /\ log = <<"Using mixed keypoint/base proportions", "no confident keypoints">>

Thresholds == {0, 20, 30, 80, 95}

\* map holds, under each name, a qualifying entry of that name, and nothing else
MapIsExact(list, t, map) ==
    /\ DOMAIN map = {list[i].name : i \in {j \in 1..Len(list) : Qualifies(list[j], t)}}
    /\ \A n \in DOMAIN map :
           \E i \in 1..Len(list) :
               Qualifies(list[i], t) /\ list[i].name = n /\ map[n] = list[i]

\* C12: buildKeypointMap(keypoints, minConfidence) holds a keypoint under its
\* name exactly when the keypoint has a non-empty name and a confidence of at
\* least minConfidence (0.3 by default); the other entries are dropped without
\* an error and the input sequence is left as it was.
C12_KeypointMapExact ==
    [][MapKeypoints =>
          /\ smplParams' = smplParams
          /\ pc' = "measure"
          /\ MapIsExact(smplParams.keypoints.elems, 30, kp')
          /\ \A t \in Thresholds :
                 MapIsExact(smplParams.keypoints.elems, t,
                            buildKeypointMap(smplParams.keypoints.elems, t))]_vars

C12_Witness ==
    /\ pc = "measure"
    /\ smplParams.keypoints.elems = Degrade(StandingFigure, "nose", "lowconf")
    /\ "nose" \notin DOMAIN kp
    /\ "neck" \in DOMAIN kp
    /\ kp["neck"] = StandingFigure[2]

ChildrenOf(n) == {nodes[n].children[i] : i \in 1..Len(nodes[n].children)}

\* the children of group g that are primitives of the given geometry
Primitives(g, geometry) ==
    {c \in ChildrenOf(g) : nodes[c].type = "Mesh" /\ nodes[c].geometry = geometry}

SubGroups(g) == {c \in ChildrenOf(g) : nodes[c].type = "Group"}

\* g holds one limb cylinder and one sub-group; the sub-group holds one limb
\* cylinder and one end primitive (hand sphere, foot box), and nothing else
IsLimbSubtree(g, endGeometry) ==
    /\ nodes[g].type = "Group"
    /\ Len(nodes[g].children) = 2
    /\ Cardinality(Primitives(g, "CylinderGeometry")) = 1
    /\ Cardinality(SubGroups(g)) = 1
    /\ \A sg \in SubGroups(g) :
           /\ Len(nodes[sg].children) = 2
           /\ Cardinality(Primitives(sg, "CylinderGeometry")) = 1
           /\ Cardinality(Primitives(sg, endGeometry)) = 1

ArmSubtrees == {g \in ChildrenOf("humanoid") : IsLimbSubtree(g, "SphereGeometry")}

LegSubtrees == {g \in ChildrenOf("humanoid") : IsLimbSubtree(g, "BoxGeometry")}

\* every node but the root is listed once, by one parent, and hangs below the root
StrictTree ==
    LET level1 == ChildrenOf("humanoid")
        level2 == UNION {ChildrenOf(n) : n \in level1}
        level3 == UNION {ChildrenOf(n) : n \in level2}
    IN  /\ \A n \in DOMAIN nodes : ChildrenOf(n) \subseteq DOMAIN nodes \ {"humanoid"}
        /\ \A n \in DOMAIN nodes : Cardinality(ChildrenOf(n)) = Len(nodes[n].children)
        /\ \A c \in DOMAIN nodes \ {"humanoid"} :
               Cardinality({n \in DOMAIN nodes : c \in ChildrenOf(n)}) = 1
        /\ {"humanoid"} \cup level1 \cup level2 \cup level3 = DOMAIN nodes
        /\ \A n \in level3 : ChildrenOf(n) = {}

Assembled == pc \in {"pose", "lift", "returned"}

\* C13: for any valid ProportionRecord the root createProceduralHumanoid
\* returns has, besides the torso and head primitives, exactly two arm subtrees
\* and two leg subtrees as children; an arm subtree is one upper-arm primitive
\* and one forearm sub-group of one forearm primitive and one hand primitive, a
\* leg subtree one thigh primitive and one shin sub-group of one shin primitive
\* and one foot primitive; ownership is a strict tree.
C13_HierarchyShape ==
    (Assembled /\ ValidRecord(proportions)) =>
        /\ Len(nodes.humanoid.children) = 6
        /\ Cardinality(Primitives("humanoid", "CapsuleGeometry")) = 1
        /\ Cardinality(Primitives("humanoid", "SphereGeometry")) = 1
        /\ Cardinality(ArmSubtrees) = 2
        /\ Cardinality(LegSubtrees) = 2
        /\ ArmSubtrees \cap LegSubtrees = {}
        /\ StrictTree

C13_Witness ==
    /\ pc = "returned"
    /\ ValidRecord(proportions)
    /\ proportions # base
    /\ ArmSubtrees = {"rightArmGroup", "leftArmGroup"}
    /\ LegSubtrees = {"rightLegGroup", "leftLegGroup"}

\* a node without its rotation
Unrotated(node) == [node EXCEPT !.rx = 0, !.ry = 0, !.rz = 0]

\* C14: applyMockPose changes rotation fields only: every node's position,
\* children and primitive dimensions are after the pose what they were after
\* the assembly, for any thetas.
C14_PoseWritesRotationsOnly ==
    [][ApplyPose =>
          /\ DOMAIN nodes' = DOMAIN nodes
          /\ \A n \in DOMAIN nodes : Unrotated(nodes'[n]) = Unrotated(nodes[n])]_vars

C14_Witness ==
    /\ pc = "lift"
    /\ nodes.head.ry # 0
    /\ nodes.rightArmGroup.rz # 0
    /\ nodes.leftShinGroup.rx # 0
    /\ \A n \in DOMAIN nodes :
           Unrotated(nodes[n]) = Unrotated(assembleHumanoid(proportions)[n])

NumThetasGiven == Len(thetasOrEmpty(smplParams).elems)

Rotations(n) == <<nodes[n].rx, nodes[n].ry, nodes[n].rz>>

\* C15: every index applyMockPose consults beyond the end of thetas is read as
\* 0 and the rotation derived from it is exactly 0; with an empty thetas every
\* rotation in the hierarchy is 0; nothing throws.
C15_MissingThetasAreZero ==
    MissingOrPartial =>
        /\ pc \notin {"throwing", "rejected"}
        /\ Posed =>
              /\ NumThetasGiven <= 2 => nodes.head.ry = 0
              /\ NumThetasGiven <= 5 => nodes.rightArmGroup.rz = 0
              /\ NumThetasGiven <= 6 => nodes.rightArmGroup.rx = 0
              /\ NumThetasGiven <= 8 => nodes.leftArmGroup.rz = 0
              /\ NumThetasGiven <= 9 => nodes.leftArmGroup.rx = 0
              /\ NumThetasGiven <= 11 => nodes.rightForearmGroup.rx = 0
              /\ NumThetasGiven <= 12 => nodes.leftForearmGroup.rx = 0
              /\ NumThetasGiven <= 15 => nodes.rightLegGroup.rx = 0
              /\ NumThetasGiven <= 16 => nodes.leftLegGroup.rx = 0
              /\ NumThetasGiven <= 18 => nodes.rightShinGroup.rx = 0
              /\ NumThetasGiven <= 19 => nodes.leftShinGroup.rx = 0
              /\ NumThetasGiven = 0 =>
                     \A n \in DOMAIN nodes : Rotations(n) = <<0, 0, 0>>

C15_Witness ==
    /\ pc = "returned"
    /\ NumThetasGiven = 10
    /\ nodes.head.ry # 0
    /\ nodes.leftArmGroup.rx # 0
    /\ nodes.rightForearmGroup.rx = 0
    /\ nodes.leftShinGroup.rx = 0

\* betas[0..3]
FirstFour(betas) == [i \in 1..4 |-> ElemAt(betas, i - 1)]

\* C16: two calls of deriveProportions with identical betas and empty keypoints
\* return field-for-field identical records; the record depends on betas[0..3]
\* only, not on the other betas, on thetas, or on what was computed before.
C16_FallbackDeterminism ==
    \A i, j \in CallIds :
        (/\ calls[i].status = "resolved" /\ calls[j].status = "resolved"
         /\ noKeypoints(calls[i].params.keypoints)
         /\ noKeypoints(calls[j].params.keypoints)
         /\ FirstFour(calls[i].params.betas) = FirstFour(calls[j].params.betas)) =>
            \A f \in Fields : calls[i].proportions[f] = calls[j].proportions[f]

C16_Witness ==
    /\ calls[1].status = "resolved" /\ calls[2].status = "resolved"
    /\ calls[1].params.keypoints = Absent
    /\ calls[2].params.keypoints = Array(<<>>)
    /\ calls[1].params.betas # calls[2].params.betas
    /\ FirstFour(calls[1].params.betas) = FirstFour(calls[2].params.betas)
    /\ calls[1].params.thetas # calls[2].params.thetas
    /\ calls[1].proportions = calls[2].proportions
    /\ calls[1].proportions.height = 170000

\* the hierarchy one invocation builds from its own parameters
ExpectedHierarchy(params) ==
    LET p == deriveProportions(params).proportions
    IN  liftHumanoid(applyMockPose(assembleHumanoid(p), thetasOrEmpty(params), p), p)

\* C17: two buildMesh invocations that overlap at the delay are independent:
\* their hierarchies share no node, and the proportions and the hierarchy each
\* one resolves with, or its rejection, follow from its own betas, thetas and
\* keypoints alone.
C17_InvocationsIndependent ==
    /\ \A i \in CallIds :
           calls[i].status = "resolved" =>
               /\ calls[i].root \in 1..Len(heap)
               /\ calls[i].proportions = deriveProportions(calls[i].params).proportions
               /\ heap[calls[i].root] = ExpectedHierarchy(calls[i].params)
    /\ \A i \in CallIds :
           calls[i].status \in {"resolved", "rejected"} =>
               (calls[i].status = "rejected" <=> deriveProportions(calls[i].params).threw)
    /\ \A i, j \in CallIds :
           (i # j /\ calls[i].root # 0 /\ calls[j].root # 0) =>
               calls[i].root # calls[j].root

C17_Witness ==
    /\ calls[1].status = "resolved" /\ calls[2].status = "resolved"
    /\ calls[1].overlapped /\ calls[2].overlapped
    /\ calls[1].params.keypoints = Array(StandingFigure)
    /\ calls[2].params.keypoints = Absent
    /\ calls[1].params.thetas # calls[2].params.thetas
    /\ calls[1].root = 2 /\ calls[2].root = 1
    /\ heap[1] # heap[2]

SeqToSet(q) == {q[i] : i \in 1..Len(q)}

\* C18: for every record deriveProportions can return, the arm selection of
\* applyMockPose is exactly the two shoulder groups and the leg selection is
\* exactly the two hip groups, so the two selections are disjoint and no
\* shoulder or forearm group receives a hip-pitch or knee-bend rotation.
C18_SelectionsDisjoint ==
    (Assembled /\ WellFormedCall) =>
        /\ SeqToSet(armGroups(nodes)) = {"rightArmGroup", "leftArmGroup"}
        /\ SeqToSet(legGroups(nodes, proportions)) = {"rightLegGroup", "leftLegGroup"}
        /\ SeqToSet(armGroups(nodes)) \cap SeqToSet(legGroups(nodes, proportions)) = {}

\* the shoulder width measured from the keypoints, before any band
ResolvedShoulderWidth ==
    measure(At(kp, "left_shoulder"), At(kp, "right_shoulder"),
            scaleOf(heightNorm(kp), base))

\* C19: when shoulder width is resolved from the keypoints the final limbRadius
\* is that width times 0.1 clamped into [0.03, 0.07], otherwise it is the
\* baseline limbRadius; either way it never exceeds 0.07.
C19_LimbRadiusBand ==
    (pc = "returned" /\ WellFormedCall) =>
        /\ proportions.limbRadius <= 7000
        /\ IF DOMAIN kp # {} /\ Truthy(ResolvedShoulderWidth)
           THEN proportions.limbRadius = clamp(Mul(ResolvedShoulderWidth, 1, 10), 3000, 7000)
           ELSE proportions.limbRadius = base.limbRadius

\* the fields deriveProportionsFromKeypoints passes through clampAround
BandedFields == Fields \ {"limbRadius"}

\* the documented span of a field, in tenths
DocumentedSpan(f) == IF f = "hipWidth" THEN 8 ELSE 6

\* C20: every keypoint-resolved measurement in the final record lies within
\* [baseline * (1 - span), baseline * (1 + span)] of its baseline value, with
\* span 0.8 for hip width and 0.6 for every other measurement.
C20_ResolvedWithinSpan ==
    (pc = "returned" /\ WellFormedCall /\ DOMAIN kp # {}) =>
        \A f \in BandedFields :
            IsNum(measures[f]) =>
                /\ proportions[f] = measures[f]
                /\ Within(proportions[f],
                          Mul(base[f], 10 - DocumentedSpan(f), 10),
                          Mul(base[f], 10 + DocumentedSpan(f), 10))

C20_Witness ==
    /\ pc = "returned"
    /\ WellFormedCall
    /\ smplParams.keypoints = Array(CrouchedFigure)
    /\ measures.shoulderWidth # Null
    /\ proportions.shoulderWidth = Mul(base.shoulderWidth, 16, 10)
    /\ proportions.hipWidth > Mul(base.hipWidth, 16, 10)
    /\ proportions.thighLength # base.thighLength

\* betas[idx], a missing index or missing betas read as 0
BetaOrZero(idx) ==
    IF smplParams.betas.kind = "array" /\ idx < Len(smplParams.betas.elems)
    THEN smplParams.betas.elems[idx + 1]
    ELSE 0

\* v limited to [lo, hi]
Limited(v, lo, hi) == IF v < lo THEN lo ELSE IF v > hi THEN hi ELSE v

\* the baseline record as documented, in 0.00001
DocumentedBaseline ==
    LET height == Limited(170000 + 120 * BetaOrZero(0), 145000, 195000)
        shoulderWidth == Limited(38000 + 50 * BetaOrZero(1), 28000, 48000)
    IN  [height |-> height,
         shoulderWidth |-> shoulderWidth,
         hipWidth |-> Limited(28000 + 50 * BetaOrZero(2), 20000, 42000),
         limbRadius |-> Limited(4000 + 15 * BetaOrZero(3), 3000, 7000),
         headRadius |-> (75 * height) \div 1000,
         torsoLength |-> (35 * height) \div 100,
         torsoRadius |-> (35 * shoulderWidth) \div 100,
         upperArmLength |-> (18 * height) \div 100,
         forearmLength |-> (18 * height) \div 100,
         thighLength |-> (25 * height) \div 100,
         shinLength |-> (25 * height) \div 100]

\* C21: with no keypoints, deriveBaseProportions computes height =
\* clamp(1.7 + betas[0]*0.12, 1.45, 1.95), shoulderWidth = clamp(0.38 +
\* betas[1]*0.05, 0.28, 0.48), hipWidth = clamp(0.28 + betas[2]*0.05, 0.20,
\* 0.42), limbRadius = clamp(0.04 + betas[3]*0.015, 0.03, 0.07), headRadius =
\* 0.075 height, torsoLength = 0.35 height, torsoRadius = 0.35 shoulderWidth,
\* upperArmLength = forearmLength = 0.18 height, thighLength = shinLength =
\* 0.25 height, a missing beta index or missing betas counting as 0; and that
\* record is the one deriveProportions returns.
C21_BaselineFormula ==
    pc \in {"assemble", "pose", "lift", "returned"} =>
        /\ base = DocumentedBaseline
        /\ proportions = base

C21_Witness ==
    /\ pc = "returned"
    /\ smplParams.betas = Array(<<150, -50, 150>>)
    /\ base.height = 188000
    /\ base.shoulderWidth = 35500
    /\ base.hipWidth = 35500
    /\ base.limbRadius = 4000
    /\ base.torsoRadius = 12425
    /\ proportions.thighLength = 47000

\* deriveProportionsFromKeypoints has taken its measurements
Measured == pc \in {"merge", "assemble", "pose", "lift", "returned"}

\* every keypoint of the KeypointMap carries numeric coordinates
NumericMap == \A n \in DOMAIN kp : IsNum(kp[n].x) /\ IsNum(kp[n].y)

KeypointPath == WellFormedCall /\ DOMAIN kp # {} /\ NumericMap

\* C22: the normalised body-height estimate is the distance between the head
\* point (nose, else left eye, else right eye) and the ankle midpoint whenever
\* both resolve; only when one of them does not resolve is it the distance
\* between the shoulder midpoint and the ankle midpoint; otherwise it is
\* undefined.
C22_HeightEstimateOrder ==
    (Measured /\ KeypointPath) =>
        LET head == IF "nose" \in DOMAIN kp THEN <<kp["nose"]>>
                    ELSE IF "left_eye" \in DOMAIN kp THEN <<kp["left_eye"]>>
                    ELSE IF "right_eye" \in DOMAIN kp THEN <<kp["right_eye"]>>
                    ELSE <<>>
            ankles == ankleMid(kp)
            shoulders == shoulderMid(kp)
        IN  IF head # <<>> /\ ankles # <<>>
            THEN heightNorm(kp) = distance2D(head[1], ankles[1])
            ELSE IF shoulders # <<>> /\ ankles # <<>>
            THEN heightNorm(kp) = distance2D(shoulders[1], ankles[1])
            ELSE heightNorm(kp) = Null

\* the documented world-scale factor, in 0.0001
DocumentedScale ==
    IF Truthy(heightNorm(kp))
    THEN Limited((base.height * 1000) \div heightNorm(kp), 5000, 30000)
    ELSE 10000

\* the distance between keypoints a and b times the documented scale factor
ScaledDistance(a, b) ==
    IF a \in DOMAIN kp /\ b \in DOMAIN kp
    THEN (distance2D(kp[a], kp[b]) * DocumentedScale) \div 1000
    ELSE Null

\* the head-size proxy: eye to eye, else twice nose to ear
ScaledHeadWidth ==
    IF Truthy(ScaledDistance("left_eye", "right_eye"))
    THEN ScaledDistance("left_eye", "right_eye")
    ELSE IF Truthy(ScaledDistance("nose", "right_ear"))
    THEN 2 * ScaledDistance("nose", "right_ear")
    ELSE Null

\* neck (else nose) to the hip midpoint
ScaledTorso ==
    LET neck == IF "neck" \in DOMAIN kp THEN <<kp["neck"]>> ELSE At(kp, "nose")
    IN  IF neck # <<>> /\ hipMid(kp) # <<>>
        THEN Or((distance2D(neck[1], hipMid(kp)[1]) * DocumentedScale) \div 1000, Null)
        ELSE Null

\* C23: the world-scale factor is clamp(baseline.height / normalizedHeight,
\* 0.5, 3.0) when the normalised height is defined and 1.0 otherwise, and every
\* pairwise segment distance (the widths, the limb lengths, the head-size
\* proxy, the torso length) is multiplied by exactly this one factor before it
\* is banded around its baseline.
C23_OneScaleFactor ==
    (pc = "merge" /\ KeypointPath) =>
        /\ scaleOf(heightNorm(kp), base) = DocumentedScale
        /\ measures.shoulderWidth =
               clampAround(ScaledDistance("left_shoulder", "right_shoulder"),
                           base.shoulderWidth, 6)
        /\ measures.hipWidth =
               clampAround(ScaledDistance("left_hip", "right_hip"), base.hipWidth, 8)
        /\ measures.upperArmLength =
               clampAround(averageResolved(ScaledDistance("left_shoulder", "left_elbow"),
                                           ScaledDistance("right_shoulder", "right_elbow")),
                           base.upperArmLength, 6)
        /\ measures.forearmLength =
               clampAround(averageResolved(ScaledDistance("left_elbow", "left_wrist"),
                                           ScaledDistance("right_elbow", "right_wrist")),
                           base.forearmLength, 6)
        /\ measures.thighLength =
               clampAround(averageResolved(ScaledDistance("left_hip", "left_knee"),
                                           ScaledDistance("right_hip", "right_knee")),
                           base.thighLength, 6)
        /\ measures.shinLength =
               clampAround(averageResolved(ScaledDistance("left_knee", "left_ankle"),
                                           ScaledDistance("right_knee", "right_ankle")),
                           base.shinLength, 6)
        /\ measures.headRadius =
               clampAround(IF Truthy(ScaledHeadWidth)
                           THEN (ScaledHeadWidth * 35) \div 100 ELSE Null,
                           base.headRadius, 4)
        /\ measures.torsoLength = clampAround(ScaledTorso, base.torsoLength, 4)

C23_Witness ==
    /\ pc = "merge"
    /\ KeypointPath
    /\ smplParams.keypoints = Array(StandingFigure)
    /\ base.height = 170000
    /\ heightNorm(kp) = 7500
    /\ DocumentedScale = 22666
    /\ measures.shoulderWidth = 45332
    /\ measures.thighLength # Null
    /\ measures.torsoLength # Null

\* the left and right keypoints a midpoint is taken of
MidpointSides ==
    {<<"left_ankle", "right_ankle">>, <<"left_hip", "right_hip">>,
     <<"left_shoulder", "right_shoulder">>}

\* the arithmetic mean of x, y and confidence of keypoints l and r
MeanOfSides(l, r) ==
    [x |-> (kp[l].x + kp[r].x) \div 2,
     y |-> (kp[l].y + kp[r].y) \div 2,
     confidence |-> (kp[l].confidence + kp[r].confidence) \div 2]

OneSideOnly(pair) == (pair[1] \in DOMAIN kp) # (pair[2] \in DOMAIN kp)

\* C24: the ankle, hip and shoulder midpoints are the arithmetic mean of x, y
\* and confidence of the left and right keypoints when both are in the
\* KeypointMap; with only one of the two sides present the midpoint is
\* unavailable, so the overall height does not resolve from a single ankle
\* and the torso length does not resolve from a single hip.
C24_MidpointNeedsBothSides ==
    (Measured /\ KeypointPath) =>
        /\ \A pair \in MidpointSides :
               LET m == midpoint(<<At(kp, pair[1]), At(kp, pair[2])>>)
               IN  IF pair[1] \in DOMAIN kp /\ pair[2] \in DOMAIN kp
                   THEN m = <<MeanOfSides(pair[1], pair[2])>>
                   ELSE m = <<>>
        /\ OneSideOnly(<<"left_ankle", "right_ankle">>) =>
               \E i \in 1..Len(warnings) : warnings[i] = "overall height"
        /\ OneSideOnly(<<"left_hip", "right_hip">>) => measures.torsoLength = Null

\* keypoint n as the point midpoint returns for it alone
PointOf(n) == [x |-> kp[n].x, y |-> kp[n].y, confidence |-> kp[n].confidence]

\* the side of the pair that is present, when only one is
PresentSide(pair) == IF pair[1] \in DOMAIN kp THEN pair[1] ELSE pair[2]

PositionOf(n) == <<kp[n].x, kp[n].y>>

Named(warns, name) == \E i \in 1..Len(warns) : warns[i] = name

\* C24 amended: a midpoint is the arithmetic mean of x, y and confidence of
\* the sides present in the KeypointMap: of both when both are present, the
\* single side itself when only one is, unavailable only when neither is; the
\* overall height resolves from a single ankle and the torso length from a
\* single hip.
C24_MidpointOfSidesPresent ==
    (pc = "merge" /\ KeypointPath) =>
        /\ \A pair \in MidpointSides :
               LET m == midpoint(<<At(kp, pair[1]), At(kp, pair[2])>>)
               IN  IF pair[1] \in DOMAIN kp /\ pair[2] \in DOMAIN kp
                   THEN m = <<MeanOfSides(pair[1], pair[2])>>
                   ELSE IF OneSideOnly(pair)
                   THEN m = <<PointOf(PresentSide(pair))>>
                   ELSE m = <<>>
        /\ (/\ OneSideOnly(<<"left_ankle", "right_ankle">>)
            /\ "nose" \in DOMAIN kp
            /\ PositionOf("nose") # PositionOf(PresentSide(<<"left_ankle", "right_ankle">>)))
               => ~Named(warnings, "overall height")
        /\ (/\ OneSideOnly(<<"left_hip", "right_hip">>)
            /\ "neck" \in DOMAIN kp
            /\ PositionOf("neck") # PositionOf(PresentSide(<<"left_hip", "right_hip">>)))
               => IsNum(measures.torsoLength)

C24_Witness ==
    /\ pc = "merge"
    /\ KeypointPath
    /\ smplParams.keypoints = Array(Degrade(StandingFigure, "left_ankle", "absent"))
    /\ ankleMid(kp) = <<PointOf("right_ankle")>>
    /\ hipMid(kp) = <<[x |-> 500, y |-> 500, confidence |-> 90]>>
    /\ ~Named(warnings, "overall height")
    /\ Truthy(heightNorm(kp))
    /\ IsNum(measures.torsoLength)

\* the bilateral segments: the field and the two ends on each side
BilateralSegments ==
    {<<"upperArmLength", "shoulder", "elbow">>, <<"forearmLength", "elbow", "wrist">>,
     <<"thighLength", "hip", "knee">>, <<"shinLength", "knee", "ankle">>}

LeftSide(seg) == ScaledDistance("left_" \o seg[2], "left_" \o seg[3])

RightSide(seg) == ScaledDistance("right_" \o seg[2], "right_" \o seg[3])

\* v inside the +-60% band around the baseline of field f
Banded(v, f) == Limited(v, (base[f] * 4) \div 10, (base[f] * 16) \div 10)

\* C25: each bilateral segment (upper arm, forearm, thigh, shin) is the
\* average of the left and right measurements when both resolve, the single
\* resolved side when exactly one resolves, and undefined, falling back to the
\* baseline, when neither resolves.
C25_BilateralAverage ==
    /\ (pc = "merge" /\ KeypointPath) =>
           \A seg \in BilateralSegments :
               LET l == LeftSide(seg)
                   r == RightSide(seg)
                   m == measures[seg[1]]
               IN  IF Truthy(l) /\ Truthy(r)
                   THEN /\ IsNum(m)
                        /\ Abs(m - Banded((l + r) \div 2, seg[1])) <= 1
                   ELSE IF Truthy(l) THEN m = Banded(l, seg[1])
                   ELSE IF Truthy(r) THEN m = Banded(r, seg[1])
                   ELSE m = Null
    /\ (pc = "assemble" /\ WellFormedCall) =>
           \A seg \in BilateralSegments :
               measures[seg[1]] = Null => proportions[seg[1]] = base[seg[1]]

C25_Witness ==
    /\ pc = "merge"
    /\ KeypointPath
    /\ smplParams.keypoints = Array(Degrade(ProfileFigure, "left_wrist", "absent"))
    /\ LeftSide(<<"upperArmLength", "shoulder", "elbow">>)
           > RightSide(<<"upperArmLength", "shoulder", "elbow">>)
    /\ measures.upperArmLength < LeftSide(<<"upperArmLength", "shoulder", "elbow">>)
    /\ measures.upperArmLength > RightSide(<<"upperArmLength", "shoulder", "elbow">>)
    /\ LeftSide(<<"forearmLength", "elbow", "wrist">>) = Null
    /\ measures.forearmLength = RightSide(<<"forearmLength", "elbow", "wrist">>)

\* thetas[idx], an index beyond the end read as 0
ThetaOrZero(idx) ==
    IF idx < NumThetasGiven THEN thetasOrEmpty(smplParams).elems[idx + 1] ELSE 0

\* the rotation documented for thetas[idx]: times factor, clamped to
\* [lo, hi] hundredths of a degree, in microradians
DocumentedRotation(idx, factor, lo, hi) ==
    (Limited(ThetaOrZero(idx) * factor, lo, hi) * 174533) \div 1000

\* the sub-group of limb group g
SubGroupOf(g) == CHOOSE c \in SubGroups(g) : TRUE

\* the arm group reads pitch, roll and elbow from the indices of its side
ArmReads(g, pitch, roll, elbow) ==
    /\ nodes[g].rx = DocumentedRotation(pitch, 40, -4000, 4000)
    /\ nodes[g].rz = DocumentedRotation(roll, 25, -2500, 2500)
    /\ nodes[SubGroupOf(g)].rx = DocumentedRotation(elbow, 60, -500, 9000)

\* the leg group reads hip and knee from the indices of its side
LegReads(g, hip, knee) ==
    /\ nodes[g].rx = DocumentedRotation(hip, 35, -3000, 3500)
    /\ nodes[g].rz = 0
    /\ nodes[SubGroupOf(g)].rx = DocumentedRotation(knee, 60, -1000, 9000)

\* C26: applyMockPose tells the sides by the sign of the group's local x: the
\* arm group with positive x reads thetas 9 (pitch), 8 (roll) and 12 (elbow),
\* the one with negative x 6, 5 and 11; the leg group with positive x reads 16
\* (hip) and 19 (knee), the one with negative x 15 and 18; the two sides of a
\* pair never read the same index and each limb group is posed exactly once.
C26_SidesBySignOfX ==
    (pc = "lift" /\ WellFormedCall /\ NumericOrMissing(smplParams.thetas)) =>
        /\ \A g \in ArmSubtrees :
               IF nodes[g].x > 0 THEN ArmReads(g, 9, 8, 12) ELSE ArmReads(g, 6, 5, 11)
        /\ \A g \in LegSubtrees :
               IF nodes[g].x > 0 THEN LegReads(g, 16, 19) ELSE LegReads(g, 15, 18)
        /\ \E g, h \in ArmSubtrees : nodes[g].x > 0 /\ nodes[h].x < 0
        /\ \E g, h \in LegSubtrees : nodes[g].x > 0 /\ nodes[h].x < 0
        /\ Len(armGroups(nodes)) + Len(legGroups(nodes, proportions)) = 4
        /\ SeqToSet(armGroups(nodes)) \cup SeqToSet(legGroups(nodes, proportions))
               = ArmSubtrees \cup LegSubtrees

\* node n sits at (x, y, 0)
PlacedAt(n, x, y) == nodes[n].x = x /\ nodes[n].y = y /\ nodes[n].z = 0

\* C27: for any ProportionRecord createProceduralHumanoid places the torso at
\* y = torsoLength/2 + hipWidth*0.1, the two arm pivots at y = torso.y +
\* torsoLength*0.45 and x = +-(shoulderWidth/2 + limbRadius*0.3), the two leg
\* pivots at y = hipWidth*0.1 and x = +-hipWidth/2; left and right pivots are
\* mirror images in x, and the forearm and shin sub-groups pivot at the far
\* end of the upper arm and thigh (local y = -upperArmLength, -thighLength).
C27_PivotPlacement ==
    (pc = "pose" /\ ValidRecord(proportions)) =>
        LET torsoY == proportions.torsoLength \div 2 + proportions.hipWidth \div 10
            shoulderY == torsoY + (45 * proportions.torsoLength) \div 100
            shoulderX == proportions.shoulderWidth \div 2
                            + (3 * proportions.limbRadius) \div 10
            hipY == proportions.hipWidth \div 10
            hipX == proportions.hipWidth \div 2
        IN  /\ PlacedAt("torso", 0, torsoY)
            /\ PlacedAt("leftArmGroup", shoulderX, shoulderY)
            /\ PlacedAt("rightArmGroup", 0 - shoulderX, shoulderY)
            /\ PlacedAt("leftLegGroup", hipX, hipY)
            /\ PlacedAt("rightLegGroup", 0 - hipX, hipY)
            /\ nodes.leftArmGroup.x = 0 - nodes.rightArmGroup.x
            /\ nodes.leftLegGroup.x = 0 - nodes.rightLegGroup.x
            /\ \A g \in ArmSubtrees :
                   PlacedAt(SubGroupOf(g), 0, 0 - proportions.upperArmLength)
            /\ \A g \in LegSubtrees :
                   PlacedAt(SubGroupOf(g), 0, 0 - proportions.thighLength)

C27_Witness ==
    /\ pc = "pose"
    /\ ValidRecord(proportions)
    /\ smplParams.keypoints = Array(StandingFigure)
    /\ proportions.shoulderWidth = 45332
    /\ nodes.leftArmGroup.x = 22666 + (3 * proportions.limbRadius) \div 10
    /\ nodes.rightLegGroup.x < 0
    /\ nodes.leftForearmGroup.y = 0 - proportions.upperArmLength
    /\ proportions # base

\* the callbacks of a run in which every stage succeeds
SuccessSequence ==
    <<<<"extracting-keypoints", 0>>, <<"extracting-keypoints", 33>>,
      <<"fitting-smpl", 33>>, <<"fitting-smpl", 66>>,
      <<"building-mesh", 66>>, <<"building-mesh", 100>>, <<"complete", 100>>>>

IsPrefix(s, t) == Len(s) <= Len(t) /\ \A i \in 1..Len(s) : s[i] = t[i]

Reported(r, stage) == \E i \in 1..Len(runs[r].callbacks) : runs[r].callbacks[i][1] = stage

\* C28: a run of processImage that was given a callback and whose stages all
\* succeed has called it with exactly the seven (stage, progress) pairs of
\* SuccessSequence, in that order, so the progress never decreases, and has
\* reported 'complete' only once the mesh is built; a run in which something
\* threw has ('error', 0) as its last callback, before it a prefix of the
\* sequence without 'complete', and rejects with the error that was thrown
C28_ProgressSequence ==
    \A r \in RunIds :
        runs[r].onProgress # "null" =>
            /\ runs[r].pc = "resolved" =>
                   /\ runs[r].callbacks = SuccessSequence
                   /\ runs[r].mesh \in 1..Len(heap)
                   /\ heap[runs[r].mesh] # noNodes
            /\ runs[r].pc = "rejected" =>
                   /\ Len(runs[r].callbacks) >= 2
                   /\ runs[r].callbacks[Len(runs[r].callbacks)] = <<"error", 0>>
                   /\ IsPrefix(SubSeq(runs[r].callbacks, 1, Len(runs[r].callbacks) - 1),
                               SuccessSequence)
                   /\ ~Reported(r, "complete")
                   /\ runs[r].error # ""
            /\ runs[r].pc \notin {"resolved", "rejected"} =>
                   /\ IsPrefix(runs[r].callbacks, SuccessSequence)
                   /\ ~Reported(r, "complete")
                   /\ ~Reported(r, "error")

\* one run went through all three stages and another failed in buildMesh
C28_Witness ==
    \E r, q \in RunIds :
        /\ runs[r].onProgress = "callback"
        /\ runs[r].pc = "resolved"
        /\ runs[r].callbacks = SuccessSequence
        /\ runs[q].onProgress = "callback"
        /\ runs[q].pc = "rejected"
        /\ Len(runs[q].callbacks) = 6
        /\ runs[q].callbacks[6] = <<"error", 0>>

\* r is the only process call made so far
OnlyCall(r) == \A q \in RunIds \ {r} : runs[q].process = "none"

\* C29: while no other process call has been made, the step in which a call
\* with a file settles successfully leaves loading = false, stage = 'complete',
\* progress = 100, error = null and the keypoints, smpl, mesh and metadata of
\* the pipeline result; the step in which it fails leaves loading = false,
\* stage = 'error', progress = 0 and the thrown error, and the call rejects with
\* that error; a call without a file sets the error and stage = 'error' and
\* leaves loading false
C29_SingleProcessCall ==
    [][\A r \in RunIds :
          OnlyCall(r) =>
              /\ (runs[r].process = "pending" /\ runs'[r].process = "resolved") =>
                     /\ runs'[r].pc = "resolved"
                     /\ runs'[r].keypoints # 0 /\ runs'[r].smpl # 0
                     /\ runs'[r].mesh # 0 /\ runs'[r].metadata # 0
                     /\ hook' = [loading |-> FALSE,
                                 stage |-> "complete",
                                 progress |-> 100,
                                 keypoints |-> runs'[r].keypoints,
                                 smpl |-> runs'[r].smpl,
                                 mesh |-> runs'[r].mesh,
                                 metadata |-> runs'[r].metadata,
                                 error |-> ""]
              /\ (runs[r].process = "pending" /\ runs'[r].process = "rejected") =>
                     /\ runs'[r].pc = "rejected"
                     /\ runs'[r].error # ""
                     /\ hook'.loading = FALSE
                     /\ hook'.stage = "error"
                     /\ hook'.progress = 0
                     /\ hook'.error = runs'[r].error
              /\ (runs[r].process = "none" /\ runs'[r].process = "noFile") =>
                     /\ hook.loading = FALSE
                     /\ hook'.loading = FALSE
                     /\ hook'.stage = "error"
                     /\ hook'.error = "No file provided"
              /\ (runs[r].process = "none" /\ runs'[r].process = "pending") =>
                     hook'.loading = TRUE
      ]_vars

\* the only call made has settled successfully and the hook shows its result
C29_Witness ==
    \E r \in RunIds :
        /\ OnlyCall(r)
        /\ runs[r].process = "resolved"
        /\ hook.stage = "complete"
        /\ hook.progress = 100
        /\ ~hook.loading
        /\ hook.mesh = runs[r].mesh
        /\ hook.mesh # 0
        /\ heap[hook.mesh] # noNodes

InFlight(r) == runs[r].process = "pending"

\* the process call with a file that was started last
Latest == CHOOSE r \in RunIds : runs[r].order = Started

AllSettled ==
    /\ Started > 0
    /\ \A r \in RunIds : runs[r].process \in {"none", "resolved", "rejected"}

\* C30: loading is true whenever a process call is in flight, also when process
\* was called again before an earlier call settled; and once every call made
\* (each with a file) has settled, stage, mesh, keypoints and smpl are those of
\* the call that was started last
C30_OverlappingCalls ==
    /\ (\E r \in RunIds : InFlight(r)) => hook.loading
    /\ AllSettled =>
           /\ hook.stage = (IF runs[Latest].process = "resolved" THEN "complete" ELSE "error")
           /\ hook.mesh = runs[Latest].mesh
           /\ hook.keypoints = runs[Latest].keypoints
           /\ hook.smpl = runs[Latest].smpl

====
